---- MODULE Spec2Model ----
(***************************************************************************)
(* A model of the BeautifyTable application: the upload state machine of   *)
(* App (src/App.tsx), the preview / pagination / analysis state of         *)
(* EditorView (src/components/EditorView.tsx) and the CSV parser and raw   *)
(* matrix structurer of utils/parser (src/unnamed/part_001).               *)
(*                                                                         *)
(* Strings that the code inspects character by character are sequences of  *)
(* one-character strings; "nullable" values are records with a kind field. *)
(***************************************************************************)
EXTENDS Integers, Sequences, FiniteSets, TLC

VARIABLES
  \* ---- App component state (src/App.tsx:12-17) and its environment
  state,          \* AppState
  currentFile,    \* File | null
  parsedData,     \* ParsedData | null
  error,          \* string | undefined
  history,        \* HistoryItem[]
  uploads,        \* the handleFileSelect invocations started so far
  progress,       \* ProcessingView's progress (exists while state = PROCESSING)
  alertMsg,       \* the last message shown by window.alert, or undefined
  userFiles,      \* the files the user can pick in this session
  uploadBudget,   \* how many files the user uploads in this session
  apiKey,         \* process.env.API_KEY is set
  \* ---- EditorView component state (src/components/EditorView.tsx:166-187)
  tableRows,
  rowsPerPage,
  showPdfPreview,
  orientation,
  paperSize,
  isGeneratingPdf,
  pdfTimer,       \* the 600 ms timer of the preview effect is pending
  isAnalyzing,
  insight,
  analyzeCall,    \* the promise returned by analyzeTableData
  \* ---- one call of a parser function
  content,        \* the argument of the call
  parseResult,    \* what the call returned or threw
  srcTable,       \* the table the content was serialised from, if any
  doc,            \* the document DOMParser returned for the content (parseHTML)
  columnValues,   \* the argument of a call detectType(values)
  columnType,     \* what that call returned
  \* ---- EditorView: props and selection (EditorView.tsx:164, 186)
  editorData,     \* the data prop: the rows and columns the editor was given
  selectedCells,  \* Set of cell ids
  lastSelected,   \* string | null
  hiddenColumns,  \* Set of column keys (EditorView.tsx:177)
  formatLog,      \* the formatting operations performed so far
  \* ---- one rendering of FormattedCell (EditorView.tsx:84)
  cellText,       \* the text prop
  view            \* the element FormattedCell returned

appVars    == <<state, currentFile, parsedData, error, history, uploads,
                progress, alertMsg, userFiles, uploadBudget>>
editorVars == <<tableRows, rowsPerPage, showPdfPreview, orientation, paperSize,
                isGeneratingPdf, pdfTimer, isAnalyzing, insight, analyzeCall>>
parserVars == <<content, parseResult, srcTable, doc, columnValues, columnType>>
formatVars == <<editorData, selectedCells, lastSelected, hiddenColumns, formatLog>>
cellVars   == <<cellText, view>>
vars       == <<appVars, apiKey, editorVars, parserVars, formatVars, cellVars>>

Null      == [kind |-> "null"]
\* FormattedCell has not been rendered.
NotRendered == [kind |-> "not rendered"]
undefined == "<undefined>"

Min(a, b) == IF a < b THEN a ELSE b
Max(a, b) == IF a > b THEN a ELSE b

(***************************************************************************)
(*                        Files and routing                                *)
(***************************************************************************)

\* A File: `ext` is the part of file.name after its last dot, as written;
\* `type` is the declared MIME type ("" when the browser knows none).
Exts  == {"csv", "CSV", "html", "htm", "pdf", "txt"}
Mimes == {"text/csv", "text/html", "application/pdf", "text/plain", "", "image/png"}
AllFiles == [ext : Exts, type : Mimes]

toLowerCase(s) == IF s = "CSV" THEN "csv" ELSE s

\* file.name.toLowerCase().endsWith('.' + ext)
endsWith(file, ext) == toLowerCase(file.ext) = ext

validExtensions == {"csv", "html", "htm", "pdf"}
validTypes == {"text/csv", "text/html", "text/plain", "application/vnd.ms-excel",
               "application/pdf"}

isExtensionValid(file) == \E ext \in validExtensions : endsWith(file, ext)
isTypeValid(file)      == file.type \in validTypes \/ file.type = ""

isAIFormat(file) == file.type = "application/pdf" \/ endsWith(file, "pdf")

\* The branch of lines 110-116 that a locally processed file takes.
localParser(file) ==
  IF endsWith(file, "csv") \/ file.type = "text/csv" THEN "parseCSV"
  ELSE IF endsWith(file, "html") \/ endsWith(file, "htm") \/ file.type = "text/html"
       THEN "parseHTML"
       ELSE "unsupported"

\* let mimeType of the AI path (lines 77-80).
aiMimeType(file) ==
  IF file.type = ""
  THEN (IF endsWith(file, "pdf") THEN "application/pdf" ELSE "")
  ELSE file.type

(***************************************************************************)
(*                        utils/parser: strings                            *)
(***************************************************************************)

\* The characters of the model's file texts: two letters, the comma, the
\* double quote, both line terminators and the space.
Chars == {"i", "d", ",", "\"", "\n", "\r", " "}

Digits == {"0", "1", "2", "3", "4", "5", "6", "7", "8", "9"}

isWhitespace(c) == c \in {" ", "\n", "\r", "\t"}

RECURSIVE trimStart(_)
trimStart(str) ==
  IF str # <<>> /\ isWhitespace(Head(str)) THEN trimStart(Tail(str)) ELSE str

RECURSIVE trimEnd(_)
trimEnd(str) ==
  IF str # <<>> /\ isWhitespace(str[Len(str)])
  THEN trimEnd(SubSeq(str, 1, Len(str) - 1))
  ELSE str

\* String.prototype.trim
trim(str) == trimEnd(trimStart(str))

\* String.prototype.toUpperCase on one character of Chars.
toUpperCase(c) == IF c = "i" THEN "I" ELSE IF c = "d" THEN "D" ELSE c

\* header.charAt(0).toUpperCase() + header.slice(1)
capitalize(header) ==
  IF header = <<>> THEN <<>> ELSE <<toUpperCase(Head(header))>> \o Tail(header)

includes(str, c) == \E k \in DOMAIN str : str[k] = c

\* v.replace(/[$,]/g, '')
stripCurrency(str) == SelectSeq(str, LAMBDA c : c \notin {"$", ","})

\* The number of digits a string starts with.
RECURSIVE leadingDigits(_)
leadingDigits(str) ==
  IF str # <<>> /\ Head(str) \in Digits THEN 1 + leadingDigits(Tail(str)) ELSE 0

drop(str, n) == SubSeq(str, n + 1, Len(str))

\* ExponentPart (optional): e or E, an optional sign, one digit or more.
isExponentPart(str) ==
  \/ str = <<>>
  \/ /\ Head(str) \in {"e", "E"}
     /\ LET d == IF Len(str) > 1 /\ str[2] \in {"+", "-"}
                 THEN drop(str, 2) ELSE drop(str, 1)
        IN  d # <<>> /\ leadingDigits(d) = Len(d)

\* StrUnsignedDecimalLiteral without Infinity: digits, an optional point and
\* fraction digits (one digit at least on either side), an optional exponent.
isDecimalLiteral(str) ==
  LET n1 == leadingDigits(str)
      r1 == drop(str, n1)
  IN  IF r1 # <<>> /\ Head(r1) = "."
      THEN LET n2 == leadingDigits(Tail(r1))
           IN  n1 + n2 >= 1 /\ isExponentPart(drop(Tail(r1), n2))
      ELSE n1 >= 1 /\ isExponentPart(r1)

Infinity == <<"I", "n", "f", "i", "n", "i", "t", "y">>

\* Number(str), by the kind of its value (StringToNumber): white space is
\* trimmed, the empty string is 0, an optionally signed decimal literal is its
\* value, an optionally signed Infinity is infinite, everything else is NaN.
\* The strings of the model hold no 0x, 0o or 0b literal and no literal
\* beyond the range of a double.
numberKind(str) ==
  LET t == trim(str)
      u == IF t # <<>> /\ Head(t) \in {"+", "-"} THEN Tail(t) ELSE t
  IN  IF t = <<>> THEN "finite"
      ELSE IF u = Infinity THEN "infinite"
      ELSE IF isDecimalLiteral(u) THEN "finite"
      ELSE "NaN"

\* isNaN(Number(str))
isNaNNumber(str) == numberKind(str) = "NaN"

\* The ECMAScript date-only format YYYY-MM-DD.
isISODate(str) ==
  /\ Len(str) = 10
  /\ \A k \in {1, 2, 3, 4, 6, 7, 9, 10} : str[k] \in Digits
  /\ str[5] = "-" /\ str[8] = "-"
  /\ <<str[6], str[7]>> \in
       {<<"0", d>> : d \in Digits \ {"0"}} \cup {<<"1", "0">>, <<"1", "1">>, <<"1", "2">>}
  /\ <<str[9], str[10]>> \in
       (({<<a, b>> : a \in {"0", "1", "2"}, b \in Digits} \ {<<"0", "0">>})
          \cup {<<"3", "0">>, <<"3", "1">>})

\* isNaN(Date.parse(str)). Every engine parses the ISO format; for any other
\* text the result is left to the engine, whose fallback parser needs a day
\* number and rejects an unknown word after a number. The non-ISO strings of
\* the model that are no number either (words without a digit, a number
\* directly followed by a letter) are rejected by every engine; for the
\* number strings the engines differ, which detectType cannot observe: it asks
\* for dates only when some value is no number, and that value is no date.
isNaNDate(str) == ~isISODate(str)

\* generateId(): the n-th identifier generated during one call. The real
\* identifiers are random; the model's are distinct and are no text of Chars.
generateId(n) == <<"#", ToString(n)>>

(***************************************************************************)
(*                        utils/parser: detectType                         *)
(***************************************************************************)

Range(seq) == {seq[k] : k \in DOMAIN seq}

\* detectType with parseFloat in the place of Number: a text that starts
\* with a number counts as one.
detectType_parseFloat(values) ==
  LET validValues == SelectSeq(values, LAMBDA v : v # <<>>)
      isNumber == \A k \in DOMAIN validValues :
                    leadingDigits(trim(stripCurrency(validValues[k]))) >= 1
      uniqueValues == Range(validValues)
      isShort  == \A k \in DOMAIN validValues : Len(validValues[k]) < 20
  IN  IF Len(validValues) = 0 THEN "text"
      ELSE IF isNumber
           THEN (IF \E k \in DOMAIN validValues : includes(validValues[k], "$")
                 THEN "currency" ELSE "number")
      ELSE IF \A k \in DOMAIN validValues : ~isNaNDate(validValues[k]) THEN "date"
      ELSE IF isShort /\ 2 * Cardinality(uniqueValues) < Len(validValues) THEN "tag"
      ELSE "text"

detectType(values) ==
  LET validValues == SelectSeq(values, LAMBDA v : v # <<>>)
      isNumber == \A k \in DOMAIN validValues :
                    ~isNaNNumber(stripCurrency(validValues[k]))
      isDate   == \A k \in DOMAIN validValues : ~isNaNDate(validValues[k])
      uniqueValues == Range(validValues)
      isShort  == \A k \in DOMAIN validValues : Len(validValues[k]) < 20
  IN  IF Len(validValues) = 0 THEN "text"
      ELSE IF isNumber
           THEN (IF \E k \in DOMAIN validValues : includes(validValues[k], "$")
                 THEN "currency" ELSE "number")
      ELSE IF isDate THEN "date"
      ELSE IF isShort /\ 2 * Cardinality(uniqueValues) < Len(validValues) THEN "tag"
      ELSE "text"

(***************************************************************************)
(*                        utils/parser: rows and columns                   *)
(***************************************************************************)

\* The property name 'id'.
idKey == <<"i", "d">>

\* row[key] = value on a TableRow (an object: a property set twice keeps the
\* last value).
setProperty(row, key, value) ==
  [k \in (DOMAIN row) \cup {key} |-> IF k = key THEN value ELSE row[k]]

\* row[key] as detectType sees it: a property the row does not have is
\* undefined, which detectType drops like the empty string.
property(row, key) == IF key \in DOMAIN row THEN row[key] ELSE <<>>

\* headers.forEach((h, idx) => row[h] = rowValues[idx] || '') from index idx on.
RECURSIVE assignCells(_, _, _, _)
assignCells(row, headers, rowValues, idx) ==
  IF idx > Len(headers) THEN row
  ELSE assignCells(
         setProperty(row, headers[idx],
                     IF idx <= Len(rowValues) THEN rowValues[idx] ELSE <<>>),
         headers, rowValues, idx + 1)

\* const row = { id: generateId() }; headers.forEach(...): the n-th row built.
makeRow(n, headers, rowValues) ==
  assignCells([k \in {idKey} |-> generateId(n)], headers, rowValues, 1)

\* headers.map(header => ({ key, label, type: detectType(rows.map(...)) })),
\* labels[c] being the label the caller gives to headers[c].
makeColumns(headers, labels, rows) ==
  [c \in DOMAIN headers |->
     [key   |-> headers[c],
      label |-> labels[c],
      type  |-> detectType([r \in DOMAIN rows |-> property(rows[r], headers[c])])]]

\* structureRawData(headers, rowsArray)
structureRawData(headers, rowsArray) ==
  LET rows == [r \in DOMAIN rowsArray |-> makeRow(r, headers, rowsArray[r])]
  IN  [kind |-> "table", rows |-> rows,
       columns |-> makeColumns(headers, headers, rows)]

(***************************************************************************)
(*                        utils/parser: parseCSV                           *)
(***************************************************************************)

\* scanCSV without the skip of the line feed of a CRLF.
RECURSIVE scanCSV_noSkip(_, _, _, _, _, _)
scanCSV_noSkip(text, i, rowsData, currentRow, currentCell, insideQuotes) ==
  IF i > Len(text)
  THEN [rowsData |-> rowsData, currentRow |-> currentRow,
        currentCell |-> currentCell, insideQuotes |-> insideQuotes]
  ELSE
    LET char     == text[i]
        nextChar == IF i + 1 <= Len(text) THEN text[i + 1] ELSE undefined
    IN  IF char = "\""
        THEN IF insideQuotes /\ nextChar = "\""
             THEN scanCSV_noSkip(text, i + 2, rowsData, currentRow,
                                 Append(currentCell, "\""), insideQuotes)
             ELSE scanCSV_noSkip(text, i + 1, rowsData, currentRow, currentCell,
                                 ~insideQuotes)
        ELSE IF char = "," /\ ~insideQuotes
        THEN scanCSV_noSkip(text, i + 1, rowsData, Append(currentRow, currentCell),
                            <<>>, insideQuotes)
        ELSE IF char \in {"\r", "\n"} /\ ~insideQuotes
        THEN scanCSV_noSkip(text, i + 1,
                            Append(rowsData, Append(currentRow, currentCell)),
                            <<>>, <<>>, insideQuotes)
        ELSE scanCSV_noSkip(text, i + 1, rowsData, currentRow,
                            Append(currentCell, char), insideQuotes)

\* The scan loop of parseCSV (lines 55-82) from position i on (the first
\* character is at 1); returns the loop's variables at its end.
RECURSIVE scanCSV(_, _, _, _, _, _)
scanCSV(text, i, rowsData, currentRow, currentCell, insideQuotes) ==
  IF i > Len(text)
  THEN [rowsData |-> rowsData, currentRow |-> currentRow,
        currentCell |-> currentCell, insideQuotes |-> insideQuotes]
  ELSE
    LET char     == text[i]
        nextChar == IF i + 1 <= Len(text) THEN text[i + 1] ELSE undefined
    IN  IF char = "\""
        THEN IF insideQuotes /\ nextChar = "\""
             THEN scanCSV(text, i + 2, rowsData, currentRow,
                          Append(currentCell, "\""), insideQuotes)
             ELSE scanCSV(text, i + 1, rowsData, currentRow, currentCell,
                          ~insideQuotes)
        ELSE IF char = "," /\ ~insideQuotes
        THEN scanCSV(text, i + 1, rowsData, Append(currentRow, currentCell),
                     <<>>, insideQuotes)
        ELSE IF char \in {"\r", "\n"} /\ ~insideQuotes
        THEN scanCSV(text,
                     IF char = "\r" /\ nextChar = "\n" THEN i + 2 ELSE i + 1,
                     Append(rowsData, Append(currentRow, currentCell)),
                     <<>>, <<>>, insideQuotes)
        ELSE scanCSV(text, i + 1, rowsData, currentRow,
                     Append(currentCell, char), insideQuotes)

\* rowsData after the loop and the flush of a pending cell or row (lines 84-88).
scannedRows(text) ==
  LET end == scanCSV(text, 1, <<>>, <<>>, <<>>, FALSE)
  IN  IF end.currentCell # <<>> \/ Len(end.currentRow) > 0
      THEN Append(end.rowsData, Append(end.currentRow, end.currentCell))
      ELSE end.rowsData

\* r => r.length > 0 && (r.length > 1 || r[0] !== '')
isValidRow(r) == Len(r) > 0 /\ (Len(r) > 1 \/ r[1] # <<>>)

\* The condition of line 105 on a data row.
rowFits(rowValues, headers) ==
  \/ Len(rowValues) = Len(headers)
  \/ Len(rowValues) = Len(headers) + 1 /\ rowValues[Len(headers) + 1] = <<>>

\* The rows the loop of lines 102-110 has pushed after validRowsData[1..upTo]
\* (the header row is validRowsData[1]).
RECURSIVE acceptedRows(_, _, _)
acceptedRows(validRowsData, headers, upTo) ==
  IF upTo <= 1 THEN <<>>
  ELSE LET before == acceptedRows(validRowsData, headers, upTo - 1)
       IN  IF rowFits(validRowsData[upTo], headers)
           THEN Append(before,
                       makeRow(Len(before) + 1, headers, validRowsData[upTo]))
           ELSE before

Thrown(message) == [kind |-> "error", message |-> message]

parseCSV(text) ==
  LET rowsData      == scannedRows(text)
      validRowsData == SelectSeq(rowsData, isValidRow)
  IN  IF Len(rowsData) = 0 THEN Thrown("File appears empty")
      ELSE IF Len(validRowsData) = 0 THEN Thrown("No valid data found")
      ELSE
        LET headers == [c \in DOMAIN validRowsData[1] |-> trim(validRowsData[1][c])]
            rows    == acceptedRows(validRowsData, headers, Len(validRowsData))
        IN  [kind |-> "table", rows |-> rows,
             columns |->
               makeColumns(headers, [c \in DOMAIN headers |-> capitalize(headers[c])],
                           rows)]

(***************************************************************************)
(*                        utils/parser: parseHTML                          *)
(***************************************************************************)

\* The document DOMParser returns is modelled by its first table element, if
\* any: the table sections (thead, tbody, tfoot) in document order, each with
\* its rows, each row with its cells (th or td) and their textContent. The
\* HTML parser puts every row of a table into a section.

\* A sequence of sequences, flattened.
RECURSIVE concat(_)
concat(seqs) == IF seqs = <<>> THEN <<>> ELSE Head(seqs) \o concat(Tail(seqs))

\* table.querySelectorAll(section + ' tr')
rowsOf(table, section) ==
  concat([k \in DOMAIN table |->
            IF table[k].tag = section THEN table[k].rows ELSE <<>>])

\* table.querySelectorAll('tr')
allRows(table) == concat([k \in DOMAIN table |-> table[k].rows])

\* table.querySelectorAll('tr:not(:first-child)')
notFirstChildRows(table) ==
  concat([k \in DOMAIN table |->
            IF table[k].rows = <<>> THEN <<>> ELSE Tail(table[k].rows)])

\* 'Column ' + (idx + 1)
columnName(idx) == <<"C", "o", "l", "u", "m", "n", " ", ToString(idx)>>

\* cells.forEach((cell, idx) => { if (headers[idx]) { row[headers[idx]] = ...;
\* if (row[headers[idx]]) hasData = true } }) from index idx on; the result is
\* the row and hasData.
RECURSIVE assignHTMLCells(_, _, _, _, _)
assignHTMLCells(row, hasData, headers, cells, idx) ==
  IF idx > Len(cells) THEN [row |-> row, hasData |-> hasData]
  ELSE IF idx <= Len(headers) /\ headers[idx] # <<>>
       THEN LET value == trim(cells[idx].textContent)
            IN  assignHTMLCells(setProperty(row, headers[idx], value),
                                hasData \/ value # <<>>, headers, cells, idx + 1)
  ELSE assignHTMLCells(row, hasData, headers, cells, idx + 1)

\* rowsToProcess.forEach(tr => ...), lines 143-156, from row n on: the n-th row
\* gets the n-th identifier and is kept when one of its cells has text.
RECURSIVE htmlRows(_, _, _)
htmlRows(rowsToProcess, headers, n) ==
  IF n > Len(rowsToProcess) THEN <<>>
  ELSE LET cells == SelectSeq(rowsToProcess[n], LAMBDA cell : cell.tag = "td")
           built == assignHTMLCells([k \in {idKey} |-> generateId(n)], FALSE,
                                    headers, cells, 1)
       IN  (IF built.hasData THEN <<built.row>> ELSE <<>>)
             \o htmlRows(rowsToProcess, headers, n + 1)

parseHTML(document) ==
  IF document.table = Null THEN Thrown("No table found in HTML file")
  ELSE
    LET table     == document.table.sections
        theadRows == rowsOf(table, "thead")
        trs       == allRows(table)
    IN  IF trs = <<>> THEN Thrown("Table has no rows")
        ELSE
          LET headerRow == IF theadRows # <<>> THEN theadRows[1] ELSE trs[1]
              headers   == [idx \in DOMAIN headerRow |->
                              IF trim(headerRow[idx].textContent) # <<>>
                              THEN trim(headerRow[idx].textContent)
                              ELSE columnName(idx)]
              bodyRows  == rowsOf(table, "tbody")
              rowsToProcess == IF Len(bodyRows) > 0 THEN bodyRows
                               ELSE notFirstChildRows(table)
              rows      == htmlRows(rowsToProcess, headers, 1)
          IN  [kind |-> "table", rows |-> rows,
               columns |-> makeColumns(headers, headers, rows)]

(***************************************************************************)
(*                        utils/parser: calls                              *)
(***************************************************************************)

\* The longest file text of the model.
MaxContent == 5

\* All texts of at most n characters.
RECURSIVE Texts(_)
Texts(n) ==
  IF n = 0 THEN {<<>>}
  ELSE LET shorter == Texts(n - 1)
       IN  shorter \cup {Append(t, c) : t \in shorter, c \in Chars}

\* A call parseCSV(content).
parseCSVCall ==
  /\ parseResult = Null
  /\ parseResult' = [by |-> "parseCSV", result |-> parseCSV(content)]
  /\ UNCHANGED <<content, srcTable, doc, columnValues, columnType>>

\* A call structureRawData(headers, rows) on the matrix an extraction returned.
structureRawDataCall ==
  /\ parseResult = Null
  /\ srcTable # Null
  /\ parseResult' =
       [by |-> "structureRawData",
        result |-> structureRawData(srcTable.headers, srcTable.rows)]
  /\ UNCHANGED <<content, srcTable, doc, columnValues, columnType>>

\* A call parseHTML(content), doc being the document of the content.
parseHTMLCall ==
  /\ parseResult = Null
  /\ doc # Null
  /\ parseResult' = [by |-> "parseHTML", result |-> parseHTML(doc)]
  /\ UNCHANGED <<content, srcTable, doc, columnValues, columnType>>

\* A call detectType(columnValues).
detectTypeCall ==
  /\ columnType = Null
  /\ columnType' = [kind |-> "type", type |-> detectType(columnValues)]
  /\ UNCHANGED <<content, parseResult, srcTable, doc, columnValues>>

\* Nothing of App or EditorView changes during a parser call.
parserFrame == UNCHANGED <<appVars, apiKey, editorVars, formatVars, cellVars>>

(***************************************************************************)
(*                        App: messages                                    *)
(***************************************************************************)

InvalidFormatAlert == "Invalid file format. Please upload CSV, HTML, or PDF."
LocalParseError ==
  "Could not parse file locally. Please ensure it is a valid CSV or HTML file."
ConversionFailed(msg) == "Conversion failed: " \o msg
UnsupportedAIType ==
  "Unsupported file type for AI processing. Only PDF is supported."
AIParseFailed ==
  "Failed to parse document with AI. Please ensure the document contains a clear table."
ApiKeyNotFound == "API Key not found"
UnknownError == "Unknown error"

(***************************************************************************)
(*                        App: the upload state machine                    *)
(***************************************************************************)

\* The number of handleFileSelect invocations one session of the model holds.
MaxUploads == 2

\* Math.random() * 15 of ProcessingView's interval, in whole percent.
ProgressIncrement == 14

Settled == {"done", "failed"}

\* ProcessingView is mounted exactly while state = PROCESSING (App.tsx:184-190):
\* its progress starts at 0 on every mount and is kept across re-renders.
progressAfter(newState) ==
  IF newState = "PROCESSING" /\ state = "PROCESSING" THEN progress ELSE 0

\* setState(s), with the mount or unmount of ProcessingView it causes.
setState(s) == state' = s /\ progress' = progressAfter(s)

\* const newData: ParsedData = {fileName: file.name, ...} of upload u.
newData(u, parser) ==
  [kind |-> "table", upload |-> u, file |-> uploads[u].file, parser |-> parser]

setPc(u, pc) == uploads' = [uploads EXCEPT ![u].pc = pc]

\* catchLocal without its setState(AppState.IDLE).
catchLocal_staysProcessing(u, parser) ==
  /\ error' = LocalParseError
  /\ uploads' = [uploads EXCEPT ![u].pc = "failed", ![u].parser = parser]
  /\ UNCHANGED <<state, progress, currentFile, parsedData, history, alertMsg,
                 userFiles, uploadBudget>>

\* catch (err) of the local path, lines 126-130, after `parser` was called
\* ("none" when the format check threw).
catchLocal(u, parser) ==
  /\ error' = LocalParseError
  /\ setState("IDLE")
  /\ uploads' = [uploads EXCEPT ![u].pc = "failed", ![u].parser = parser]
  /\ UNCHANGED <<currentFile, parsedData, history, alertMsg, userFiles, uploadBudget>>

\* catch (err) of handleFileSelect, lines 134-140.
catchOuter(u, msg) ==
  /\ error' = ConversionFailed(msg)
  /\ setState("IDLE")
  /\ setPc(u, "failed")
  /\ UNCHANGED <<currentFile, parsedData, history, alertMsg, userFiles, uploadBudget>>

\* The synchronous part of handleFileSelect, up to its first suspension
\* (await fileToBase64, or reader.readAsText): React applies the three or four
\* state updates in one batch.
handleFileSelect(file) ==
  /\ Len(uploads) < uploadBudget
  /\ currentFile' = [kind |-> "file", file |-> file]
  /\ error' = undefined
  /\ setState(IF isAIFormat(file) THEN "PROCESSING" ELSE "UPLOADING")
  /\ uploads' =
       Append([u \in DOMAIN uploads |->
                 IF uploads[u].pc \notin Settled /\ state = "UPLOADING"
                 THEN [uploads[u] EXCEPT !.superseded = TRUE]
                 ELSE uploads[u]],
              [file |-> file,
               pc |-> IF isAIFormat(file) THEN "base64" ELSE "reading",
               parser |-> "none",
               superseded |-> FALSE])
  /\ UNCHANGED <<parsedData, history, alertMsg, userFiles, uploadBudget>>

\* UploadZone: the user drops or picks a file while the zone is rendered.
validateAndUpload(file) ==
  /\ state \in {"IDLE", "UPLOADING"}
  /\ \/ /\ isExtensionValid(file) \/ isTypeValid(file)
        /\ handleFileSelect(file)
     \/ /\ ~(isExtensionValid(file) \/ isTypeValid(file))
        /\ alertMsg' = InvalidFormatAlert
        /\ UNCHANGED <<state, currentFile, parsedData, error, history, uploads,
                       progress, userFiles, uploadBudget>>

\* reader.onload of the local path, up to the await of the 800 ms timer.
readerOnload(u) ==
  /\ uploads[u].pc = "reading"
  /\ setState("PROCESSING")
  /\ setPc(u, "delay")
  /\ UNCHANGED <<currentFile, parsedData, error, history, alertMsg, userFiles, uploadBudget>>

\* reader.onload after the timer: route, parse, store or catch. Whether the
\* chosen parser throws depends on the file's text: both outcomes are drawn.
localParse(u) ==
  /\ uploads[u].pc = "delay"
  /\ LET parser == localParser(uploads[u].file) IN
     \/ /\ parser # "unsupported"
        /\ parsedData' = newData(u, parser)
        /\ uploads' = [uploads EXCEPT ![u].pc = "done", ![u].parser = parser]
        /\ UNCHANGED <<state, currentFile, error, history, progress, alertMsg,
                       userFiles, uploadBudget>>
     \/ /\ parser # "unsupported"
        /\ catchLocal(u, parser)
     \/ /\ parser = "unsupported"
        /\ catchLocal(u, "none")

\* fileToBase64 resolved: the MIME check, then the call of parseDocumentWithAI.
fileToBase64Resolved(u) ==
  /\ uploads[u].pc = "base64"
  /\ IF aiMimeType(uploads[u].file) # "application/pdf"
     THEN catchOuter(u, UnsupportedAIType)
     ELSE /\ uploads' = [uploads EXCEPT ![u].pc = "ai",
                                        ![u].parser = "parseDocumentWithAI"]
          /\ UNCHANGED <<state, currentFile, parsedData, error, history, progress,
                         alertMsg, userFiles, uploadBudget>>

\* fileToBase64 rejected (reader.onerror): err is no Error, so "Unknown error".
fileToBase64Rejected(u) ==
  /\ uploads[u].pc = "base64"
  /\ catchOuter(u, UnknownError)

\* parseDocumentWithAI settled: getAI() throws without an API key; otherwise the
\* request resolves to a table or the function throws its own parse error.
parseDocumentWithAI(u) ==
  /\ uploads[u].pc = "ai"
  /\ IF ~apiKey
     THEN catchOuter(u, ApiKeyNotFound)
     ELSE \/ /\ parsedData' = newData(u, "parseDocumentWithAI")
             /\ setPc(u, "done")
             /\ UNCHANGED <<state, currentFile, error, history, progress, alertMsg,
                            userFiles, uploadBudget>>
          \/ catchOuter(u, AIParseFailed)

\* One tick of ProcessingView's interval (lines 22-31).
progressTick ==
  /\ state = "PROCESSING"
  /\ progress < 100
  /\ progress' = Min(progress + ProgressIncrement, 100)
  /\ UNCHANGED <<state, currentFile, parsedData, error, history, uploads,
                 alertMsg, userFiles, uploadBudget>>

\* saveToHistory(data): the new item goes first.
saveToHistory(data) == history' = <<[fileName |-> data.file]>> \o history

\* The "Beautify Table" button, rendered once progress is 100.
handleProcessingComplete ==
  /\ state = "PROCESSING"
  /\ progress = 100
  /\ IF parsedData # Null
     THEN /\ saveToHistory(parsedData)
          /\ setState("EDITOR")
          /\ UNCHANGED <<currentFile, parsedData, error, uploads, alertMsg,
                         userFiles, uploadBudget>>
     ELSE UNCHANGED appVars

\* handleNewUpload without its setState(AppState.IDLE).
handleNewUpload_keepsState ==
  /\ parsedData' = Null
  /\ currentFile' = Null
  /\ error' = undefined
  /\ UNCHANGED <<state, progress, history, uploads, alertMsg, userFiles,
                 uploadBudget>>

\* "New Conversion" of the sidebar, reachable in every state.
handleNewUpload ==
  /\ setState("IDLE")
  /\ parsedData' = Null
  /\ currentFile' = Null
  /\ error' = undefined
  /\ UNCHANGED <<history, uploads, alertMsg, userFiles, uploadBudget>>

\* The trash button of a history entry.
handleDeleteHistory(i) ==
  /\ i \in DOMAIN history
  /\ history' = [j \in 1..(Len(history) - 1) |->
                   IF j < i THEN history[j] ELSE history[j + 1]]
  /\ UNCHANGED <<state, currentFile, parsedData, error, uploads, progress,
                 alertMsg, userFiles, uploadBudget>>

\* Nothing of EditorView or of the parser calls changes while App runs.
appFrame == UNCHANGED <<apiKey, editorVars, parserVars, formatVars, cellVars>>

AppNext ==
  \/ \E file \in userFiles : validateAndUpload(file) /\ appFrame
  \/ \E u \in DOMAIN uploads : readerOnload(u) /\ appFrame
  \/ \E u \in DOMAIN uploads : localParse(u) /\ appFrame
  \/ \E u \in DOMAIN uploads : fileToBase64Resolved(u) /\ appFrame
  \/ \E u \in DOMAIN uploads : fileToBase64Rejected(u) /\ appFrame
  \/ \E u \in DOMAIN uploads : parseDocumentWithAI(u) /\ appFrame
  \/ progressTick /\ appFrame
  \/ handleProcessingComplete /\ appFrame
  \/ handleNewUpload /\ appFrame
  \/ \E i \in DOMAIN history : handleDeleteHistory(i) /\ appFrame

\* The files of the concurrency sessions: a CSV, a PDF, a text file no parser
\* takes, and an image the upload zone turns away.
CoreFiles ==
  {[ext |-> "csv", type |-> "text/csv"],
   [ext |-> "pdf", type |-> "application/pdf"],
   [ext |-> "txt", type |-> "text/plain"],
   [ext |-> "txt", type |-> "image/png"]}

AppInit ==
  /\ state = "IDLE"
  /\ currentFile = Null
  /\ parsedData = Null
  /\ error = undefined
  /\ history = <<>>
  /\ uploads = <<>>
  /\ progress = 0
  /\ alertMsg = undefined

\* The other components, not mounted / not called.
EditorIdle ==
  /\ tableRows = <<>>
  /\ rowsPerPage = 20
  /\ showPdfPreview = FALSE
  /\ orientation = "portrait"
  /\ paperSize = "a4"
  /\ isGeneratingPdf = FALSE
  /\ pdfTimer = FALSE
  /\ isAnalyzing = FALSE
  /\ insight = Null
  /\ analyzeCall = "none"

ParserIdle ==
  /\ content = <<>>
  /\ parseResult = Null
  /\ srcTable = Null

\* No document parsed, no column typed on its own.
LibIdle ==
  /\ doc = Null
  /\ columnValues = <<>>
  /\ columnType = Null

\* No cell selected, no formatting done, no cell rendered on its own.
FormatIdle ==
  /\ editorData = Null
  /\ selectedCells = {}
  /\ lastSelected = Null
  /\ hiddenColumns = {}
  /\ formatLog = <<>>
  /\ cellText = <<>>
  /\ view = NotRendered

Init ==
  /\ AppInit
  /\ userFiles = CoreFiles
  /\ uploadBudget = MaxUploads
  /\ apiKey \in BOOLEAN
  /\ EditorIdle
  /\ ParserIdle
  /\ LibIdle
  /\ FormatIdle

Next == AppNext

Spec == Init /\ [][Next]_vars

\* Sessions of one upload, of any file: the routing of handleFileSelect.
RouteInit ==
  /\ AppInit
  /\ userFiles = AllFiles
  /\ uploadBudget = 1
  /\ apiKey \in BOOLEAN
  /\ EditorIdle
  /\ ParserIdle
  /\ LibIdle
  /\ FormatIdle

SpecRoute == RouteInit /\ [][AppNext]_vars

(***************************************************************************)
(*                        EditorView: pagination                           *)
(***************************************************************************)

\* The longest table of the model.
MaxRows == 12

\* slice with its end index taken as inclusive.
slice_endInclusive(seq, start, end) ==
  LET len  == Len(seq)
      from == IF start < 0 THEN Max(len + start, 0) ELSE Min(start, len)
      to   == IF end < 0 THEN Max(len + end + 1, 0) ELSE Min(end + 1, len)
  IN  [k \in 1..Max(to - from, 0) |-> seq[from + k]]

\* Array.prototype.slice(start, end) on a sequence (indices from 0, negative
\* indices count from the end, both clamped to the length).
slice(seq, start, end) ==
  LET len  == Len(seq)
      from == IF start < 0 THEN Max(len + start, 0) ELSE Min(start, len)
      to   == IF end < 0 THEN Max(len + end, 0) ELSE Min(end, len)
  IN  [k \in 1..Max(to - from, 0) |-> seq[from + k]]

\* The for loop of paginatedRows from index i on, run for at most `fuel`
\* iterations: done tells whether the loop condition became false.
RECURSIVE pageLoop(_, _, _, _, _)
pageLoop(rows, perPage, i, pages, fuel) ==
  IF ~(i < Len(rows)) THEN [done |-> TRUE, pages |-> pages]
  ELSE IF fuel = 0 THEN [done |-> FALSE, pages |-> pages]
  ELSE pageLoop(rows, perPage, i + perPage,
                Append(pages, slice(rows, i, i + perPage)), fuel - 1)

\* A loop that ends at all ends within Len(rows) iterations (i grows by at
\* least 1 each time), so this fuel decides termination.
loopFuel(rows) == Len(rows) + 1

\* const paginatedRows = useMemo(...), recomputed by every render.
paginatedRows == pageLoop(tableRows, rowsPerPage, 0, <<>>, loopFuel(tableRows))

\* The render of EditorView returns, so the user can act on what it shows.
rendered == paginatedRows.done

(***************************************************************************)
(*                        EditorView: preview and analysis                 *)
(***************************************************************************)

Orientations == {"portrait", "landscape"}
PaperSizes   == {"a4", "letter", "legal"}

\* What the user can leave in the rows input: e.target.value is "" when the
\* field is empty and else the decimal text of the number typed.
EmptyInput == [kind |-> "empty"]
RowsInputs ==
  {EmptyInput} \cup {[kind |-> "number", n |-> n] : n \in {-1, 0, 3, 5, 7, 100, 101}}

\* Number(e.target.value)
Number(value) == IF value = EmptyInput THEN 0 ELSE value.n

\* The body of the preview effect (lines 200-208), run after a render in which
\* one of showPdfPreview, paperSize, orientation changed; its cleanup clears a
\* pending timer.
previewEffect(show, orient) ==
  IF show
  THEN /\ isGeneratingPdf' = TRUE
       /\ rowsPerPage' = (IF orient = "portrait" THEN 20 ELSE 12)
       /\ pdfTimer' = TRUE
  ELSE /\ pdfTimer' = FALSE
       /\ UNCHANGED <<isGeneratingPdf, rowsPerPage>>

\* onClick of "Export PDF": setShowPdfPreview(true).
openPreview ==
  /\ rendered
  /\ ~showPdfPreview
  /\ showPdfPreview' = TRUE
  /\ previewEffect(TRUE, orientation)
  /\ UNCHANGED <<tableRows, orientation, paperSize, isAnalyzing, insight,
                 analyzeCall>>

\* onClick of Cancel or of the close button: setShowPdfPreview(false).
closePreview ==
  /\ rendered
  /\ showPdfPreview
  /\ showPdfPreview' = FALSE
  /\ previewEffect(FALSE, orientation)
  /\ UNCHANGED <<tableRows, orientation, paperSize, isAnalyzing, insight,
                 analyzeCall>>

\* onChange of the paper size select of the preview toolbar.
setPaperSize(size) ==
  /\ rendered
  /\ showPdfPreview
  /\ size # paperSize
  /\ paperSize' = size
  /\ previewEffect(TRUE, orientation)
  /\ UNCHANGED <<tableRows, showPdfPreview, orientation, isAnalyzing, insight,
                 analyzeCall>>

\* onChange of the orientation select of the preview toolbar.
setOrientation(orient) ==
  /\ rendered
  /\ showPdfPreview
  /\ orient # orientation
  /\ orientation' = orient
  /\ previewEffect(TRUE, orient)
  /\ UNCHANGED <<tableRows, showPdfPreview, paperSize, isAnalyzing, insight,
                 analyzeCall>>

\* onChange of the rows input: setRowsPerPage(Number(e.target.value)).
setRowsPerPage(value) ==
  /\ rendered
  /\ showPdfPreview
  /\ rowsPerPage' = Number(value)
  /\ UNCHANGED <<tableRows, showPdfPreview, orientation, paperSize,
                 isGeneratingPdf, pdfTimer, isAnalyzing, insight, analyzeCall>>

\* The timer of the preview effect fires: setIsGeneratingPdf(false).
pdfTimerFires ==
  /\ rendered
  /\ pdfTimer
  /\ pdfTimer' = FALSE
  /\ isGeneratingPdf' = FALSE
  /\ UNCHANGED <<tableRows, rowsPerPage, showPdfPreview, orientation, paperSize,
                 isAnalyzing, insight, analyzeCall>>

\* The pair analyzeTableData returns from its catch block.
FallbackInsight ==
  [kind |-> "insight",
   summary |-> "Could not analyze data at this time.",
   suggestedTitle |-> "Imported Data Table"]

\* What ai.models.generateContent can do: reject, or resolve to a response
\* whose text is empty, is no JSON, is the JSON null, or is a JSON object that
\* has or lacks the fields summary, title and suggestedTitle ("" = absent).
Responses ==
  {[kind |-> "rejected"], [kind |-> "noText"], [kind |-> "notJSON"],
   [kind |-> "jsonNull"]}
  \cup [kind : {"json"}, summary : {"", "A summary."}, title : {"", "A title"},
        suggestedTitle : {"", "Another title"}]

\* The try block of analyzeTableData (lines 290-314) on one response.
insightFrom(response) ==
  IF response.kind # "json"
  THEN FallbackInsight
  ELSE [kind |-> "insight",
        summary |-> IF response.summary # "" THEN response.summary
                    ELSE "Analysis unavailable.",
        suggestedTitle |->
          IF response.title # "" THEN response.title
          ELSE IF response.suggestedTitle # "" THEN response.suggestedTitle
          ELSE "Untitled Data Table"]

\* const ai = getAI() of analyzeTableData: it stands before the try block,
\* so its throw rejects the promise the function returns.
analyzeTableData == IF apiKey THEN "pending" ELSE "rejected"

\* onClick of the analyze button (disabled while isAnalyzing or with an
\* insight), up to the await of analyzeTableData.
handleAnalyze ==
  /\ rendered
  /\ ~(isAnalyzing \/ insight # Null)
  /\ isAnalyzing' = TRUE
  /\ analyzeCall' = analyzeTableData
  /\ UNCHANGED <<tableRows, rowsPerPage, showPdfPreview, orientation, paperSize,
                 isGeneratingPdf, pdfTimer, insight>>

\* The request settles and handleAnalyze resumes after its await.
analyzeResolved(response) ==
  /\ rendered
  /\ analyzeCall = "pending"
  /\ analyzeCall' = "resolved"
  /\ insight' = insightFrom(response)
  /\ isAnalyzing' = FALSE
  /\ UNCHANGED <<tableRows, rowsPerPage, showPdfPreview, orientation, paperSize,
                 isGeneratingPdf, pdfTimer>>

\* Nothing of App or of the parser calls changes while EditorView runs.
editorFrame == UNCHANGED <<appVars, apiKey, parserVars, formatVars, cellVars>>

EditorNext ==
  \/ openPreview /\ editorFrame
  \/ closePreview /\ editorFrame
  \/ \E size \in PaperSizes : setPaperSize(size) /\ editorFrame
  \/ \E orient \in Orientations : setOrientation(orient) /\ editorFrame
  \/ \E value \in RowsInputs : setRowsPerPage(value) /\ editorFrame
  \/ pdfTimerFires /\ editorFrame
  \/ handleAnalyze /\ editorFrame
  \/ \E response \in Responses : analyzeResolved(response) /\ editorFrame

\* App has shown the editor for a table of up to MaxRows rows.
AppInEditor ==
  /\ state = "EDITOR"
  /\ currentFile = [kind |-> "file", file |-> [ext |-> "csv", type |-> "text/csv"]]
  /\ parsedData = [kind |-> "table", upload |-> 1,
                   file |-> [ext |-> "csv", type |-> "text/csv"],
                   parser |-> "parseCSV"]
  /\ error = undefined
  /\ history = <<[fileName |-> [ext |-> "csv", type |-> "text/csv"]]>>
  /\ uploads = <<[file |-> [ext |-> "csv", type |-> "text/csv"], pc |-> "done",
                  parser |-> "parseCSV", superseded |-> FALSE]>>
  /\ progress = 0
  /\ alertMsg = undefined
  /\ userFiles = CoreFiles
  /\ uploadBudget = 1

\* useState initial values of EditorView; data.rows is any table of the model,
\* its rows named by their position in the source.
EditorInit ==
  /\ AppInEditor
  /\ apiKey \in BOOLEAN
  /\ tableRows \in {[k \in 1..n |-> k] : n \in 0..MaxRows}
  /\ rowsPerPage = 20
  /\ showPdfPreview = FALSE
  /\ orientation = "portrait"
  /\ paperSize = "a4"
  /\ isGeneratingPdf = FALSE
  /\ pdfTimer = FALSE
  /\ isAnalyzing = FALSE
  /\ insight = Null
  /\ analyzeCall = "none"
  /\ ParserIdle
  /\ LibIdle
  /\ FormatIdle

SpecEditor == EditorInit /\ [][EditorNext]_vars

(***************************************************************************)
(*                        utils/parser: specifications                     *)
(***************************************************************************)

\* parseCSV on every text of at most MaxContent characters.
CSVInit ==
  /\ AppInit
  /\ userFiles = CoreFiles
  /\ uploadBudget = 0
  /\ apiKey = TRUE
  /\ EditorIdle
  /\ content \in Texts(MaxContent)
  /\ parseResult = Null
  /\ srcTable = Null
  /\ LibIdle
  /\ FormatIdle

CSVNext == parseCSVCall /\ parserFrame

SpecCSV == CSVInit /\ [][CSVNext]_vars

\* The tables of the round trip: one or two columns, up to two data rows,
\* headers that trim leaves alone, cells that need no quoting, every kind of
\* quoting, or are empty.
TableHeaders == {<<"d">>, <<"i", "d">>}
TableCells   == {<<>>, <<"d">>, <<",">>, <<"\"">>, <<"\n">>, <<"d", "\"">>}
TableShapes  == {1, 2} \X {0, 1, 2}

Tables ==
  UNION {[headers : [1..shape[1] -> TableHeaders],
          rows : [1..shape[2] -> [1..shape[1] -> TableCells]]]
         : shape \in TableShapes}

\* A CSV field: quoted, with inner quotes doubled, when it holds a comma, a
\* line break or a double quote.
RECURSIVE doubleQuotes(_)
doubleQuotes(str) ==
  IF str = <<>> THEN <<>>
  ELSE (IF Head(str) = "\"" THEN <<"\"", "\"">> ELSE <<Head(str)>>)
       \o doubleQuotes(Tail(str))

csvField(value) ==
  IF \E c \in {",", "\n", "\r", "\""} : includes(value, c)
  THEN <<"\"">> \o doubleQuotes(value) \o <<"\"">>
  ELSE value

\* One CSV line: the fields joined by commas, ended by a line feed.
RECURSIVE csvLine(_)
csvLine(cells) ==
  IF Len(cells) = 1 THEN csvField(cells[1]) \o <<"\n">>
  ELSE csvField(Head(cells)) \o <<",">> \o csvLine(Tail(cells))

RECURSIVE csvLines(_)
csvLines(lines) ==
  IF lines = <<>> THEN <<>> ELSE csvLine(Head(lines)) \o csvLines(Tail(lines))

\* The CSV text of a table: its header line, then its rows.
toCSV(table) == csvLine(table.headers) \o csvLines(table.rows)

\* parseCSV on the CSV text of every table, and structureRawData on the table.
TableInit ==
  /\ AppInit
  /\ userFiles = CoreFiles
  /\ uploadBudget = 0
  /\ apiKey = TRUE
  /\ EditorIdle
  /\ srcTable \in Tables
  /\ content = toCSV(srcTable)
  /\ parseResult = Null
  /\ LibIdle
  /\ FormatIdle

TableNext ==
  \/ parseCSVCall /\ parserFrame
  \/ structureRawDataCall /\ parserFrame

SpecTable == TableInit /\ [][TableNext]_vars

\* The columns detectType is called on: up to MaxColumn values, either
\* numbers-and-text values (empty, plain and formatted numbers, Infinity, a
\* lone currency sign, white space, two short words, a 20-character word) or
\* dates-and-text values (two ISO dates, a short word).
MaxColumn == 4

Word20 == [k \in 1..20 |-> "a"]

NumberAndTextValues ==
  {<<>>, <<"1">>, <<"$", "1">>, <<"1", ",", "5">>, <<"-", "0", ".", "5">>,
   Infinity, <<"$">>, <<" ">>, <<"a">>, <<"b">>, Word20}

DateAndTextValues ==
  {<<"2", "0", "2", "4", "-", "0", "1", "-", "0", "5">>,
   <<"2", "0", "2", "4", "-", "1", "2", "-", "3", "1">>, <<"a">>}

RECURSIVE SeqsUpTo(_, _)
SeqsUpTo(S, n) ==
  IF n = 0 THEN {<<>>}
  ELSE LET shorter == SeqsUpTo(S, n - 1)
       IN  shorter \cup {Append(q, v) : q \in shorter, v \in S}

Columns == SeqsUpTo(NumberAndTextValues, MaxColumn)
             \cup SeqsUpTo(DateAndTextValues, MaxColumn)

DetectInit ==
  /\ AppInit
  /\ userFiles = CoreFiles
  /\ uploadBudget = 0
  /\ apiKey = TRUE
  /\ EditorIdle
  /\ ParserIdle
  /\ doc = Null
  /\ columnValues \in Columns
  /\ columnType = Null
  /\ FormatIdle

DetectNext == detectTypeCall /\ parserFrame

SpecDetect == DetectInit /\ [][DetectNext]_vars

\* The documents parseHTML is called on: one without a table, and tables whose
\* header row (two th or two td cells) stands in a thead followed by a tbody,
\* or is the first row of the tbody, or stands in a thead that also holds the
\* other rows; up to two other rows of one or two td cells.
th(str) == [tag |-> "th", textContent |-> str]
td(str) == [tag |-> "td", textContent |-> str]

City  == <<"C", "i", "t", "y">>
Pop   == <<"P", "o", "p">>
Paris == <<"P", "a", "r", "i", "s">>
Lyon  == <<"L", "y", "o", "n">>
TwoM  == <<"2", "M">>
HalfM == <<"0", ".", "5", "M">>

ExampleDocument ==
  [table |->
     [sections |->
        << [tag |-> "thead", rows |-> << <<th(City), th(Pop)>> >>],
           [tag |-> "tbody", rows |-> << <<td(Paris), td(TwoM)>>,
                                          <<td(Lyon), td(HalfM)>> >>] >>]]

HeaderTexts == {City, <<>>, idKey}
CellValues  == {<<>>, <<" ", "2", "M", " ">>, Paris}

HeaderRows ==
  {<<th(h1), th(h2)>> : h1, h2 \in HeaderTexts}
    \cup {<<td(h1), td(h2)>> : h1, h2 \in HeaderTexts}

DataRows ==
  {<<td(v)>> : v \in CellValues} \cup {<<td(v1), td(v2)>> : v1, v2 \in CellValues}

DataRowSeqs == {<<>>} \cup {<<r>> : r \in DataRows} \cup {<<r1, r2>> : r1, r2 \in DataRows}

Documents ==
  {[table |-> Null], ExampleDocument}
    \cup {[table |-> [sections |-> << [tag |-> "thead", rows |-> <<h>>],
                                      [tag |-> "tbody", rows |-> body] >>]]
            : h \in HeaderRows, body \in DataRowSeqs}
    \cup {[table |-> [sections |-> << [tag |-> "tbody", rows |-> <<h>> \o body] >>]]
            : h \in HeaderRows, body \in DataRowSeqs}
    \cup {[table |-> [sections |-> << [tag |-> "thead", rows |-> <<h>> \o body] >>]]
            : h \in HeaderRows, body \in DataRowSeqs}
    \cup {[table |-> [sections |-> << [tag |-> "tbody", rows |-> <<>>] >>]]}

HTMLInit ==
  /\ AppInit
  /\ userFiles = CoreFiles
  /\ uploadBudget = 0
  /\ apiKey = TRUE
  /\ EditorIdle
  /\ ParserIdle
  /\ doc \in Documents
  /\ columnValues = <<>>
  /\ columnType = Null
  /\ FormatIdle

HTMLNext == parseHTMLCall /\ parserFrame

SpecHTML == HTMLInit /\ [][HTMLNext]_vars

(***************************************************************************)
(*                        EditorView: strings                              *)
(***************************************************************************)

LineTerminators == {"\n", "\r"}

HexDigits == Digits \cup {"a", "b", "c", "d", "e", "f", "A", "B", "C", "D", "E", "F"}

\* The part of str from index i on starts with pat.
startsWithAt(str, i, pat) ==
  /\ i + Len(pat) - 1 <= Len(str)
  /\ SubSeq(str, i, i + Len(pat) - 1) = pat

startsWith(str, pat) == startsWithAt(str, 1, pat)

endsWithStr(str, pat) == startsWithAt(str, Len(str) - Len(pat) + 1, pat) /\ Len(pat) <= Len(str)

\* The first index j >= i at which pat occurs in str with no line terminator
\* in str[i..j-1] (what a lazy .*? followed by pat reaches), or 0.
RECURSIVE indexOnLine(_, _, _)
indexOnLine(str, pat, i) ==
  IF i > Len(str) THEN 0
  ELSE IF startsWithAt(str, i, pat) THEN i
  ELSE IF str[i] \in LineTerminators THEN 0
  ELSE indexOnLine(str, pat, i + 1)

\* content.split(/\r?\n/): the lines of str, from index i on, cur being the
\* line read so far.
RECURSIVE splitLines(_, _, _)
splitLines(str, i, cur) ==
  IF i > Len(str) THEN <<cur>>
  ELSE IF str[i] = "\n"
       THEN <<(IF cur # <<>> /\ cur[Len(cur)] = "\r"
               THEN SubSeq(cur, 1, Len(cur) - 1) ELSE cur)>>
            \o splitLines(str, i + 1, <<>>)
  ELSE splitLines(str, i + 1, Append(cur, str[i]))

\* newLines.join('\n')
RECURSIVE join(_)
join(lines) ==
  IF Len(lines) = 1 THEN lines[1]
  ELSE Head(lines) \o <<"\n">> \o join(Tail(lines))

\* trimmed.match(/^h[1-3]\s/i)
matchesHeading(trimmed) ==
  /\ Len(trimmed) >= 3
  /\ trimmed[1] \in {"h", "H"}
  /\ trimmed[2] \in {"1", "2", "3"}
  /\ isWhitespace(trimmed[3])

\* trimmed.match(/^[+\-*]\s/)
matchesBullet(trimmed) ==
  /\ Len(trimmed) >= 2
  /\ trimmed[1] \in {"+", "-", "*"}
  /\ isWhitespace(trimmed[2])

\* trimmed.match(/^#\s/)
matchesOrderedList(trimmed) ==
  /\ Len(trimmed) >= 2
  /\ trimmed[1] = "#"
  /\ isWhitespace(trimmed[2])

\* The number of hexadecimal digits a string starts with.
RECURSIVE leadingHexDigits(_)
leadingHexDigits(str) ==
  IF str # <<>> /\ Head(str) \in HexDigits THEN 1 + leadingHexDigits(Tail(str)) ELSE 0

ColorOpen  == <<"[", "c", "o", "l", "o", "r", "=">>
ColorClose == <<"[", "/", "c", "o", "l", "o", "r", "]">>

\* The index of the "]" that ends an opening color tag starting at index i, or
\* 0: \[color=#[0-9a-fA-F]{3,6}\] when hex (applyFormat), \[color=.*?\] when
\* not (clearFormatting).
colorOpenEnd(str, i, hex) ==
  IF ~startsWithAt(str, i, ColorOpen) THEN 0
  ELSE IF hex
       THEN LET n == leadingHexDigits(drop(str, i + 7))
            IN  IF /\ startsWithAt(str, i + 7, <<"#">>)
                   /\ n \in 3..6
                   /\ startsWithAt(str, i + 8 + n, <<"]">>)
                THEN i + 8 + n
                ELSE 0
  ELSE indexOnLine(str, <<"]">>, i + 7)

\* str.replace(/<opening tag>(.*?)\[\/color\]/g, '$1') from index i on.
RECURSIVE replaceColor(_, _, _)
replaceColor(str, i, hex) ==
  IF i > Len(str) THEN <<>>
  ELSE LET open  == colorOpenEnd(str, i, hex)
           close == IF open = 0 THEN 0 ELSE indexOnLine(str, ColorClose, open + 1)
       IN  IF close = 0
           THEN <<str[i]>> \o replaceColor(str, i + 1, hex)
           ELSE SubSeq(str, open + 1, close - 1) \o replaceColor(str, close + 8, hex)

\* str.replace(/D(.*?)D/g, '$1') for the one-character delimiter D, from
\* index i on.
RECURSIVE replacePairs(_, _, _)
replacePairs(str, i, delim) ==
  IF i > Len(str) THEN <<>>
  ELSE LET close == IF str[i] = delim THEN indexOnLine(str, <<delim>>, i + 1) ELSE 0
       IN  IF close = 0
           THEN <<str[i]>> \o replacePairs(str, i + 1, delim)
           ELSE SubSeq(str, i + 1, close - 1) \o replacePairs(str, close + 1, delim)

\* newText.replace(/^\*|\*$/g, ''): one asterisk off the start, one off the end.
unwrapBold(newText) ==
  LET n     == Len(newText)
      lead  == n >= 1 /\ newText[1] = "*"
      trail == n >= 1 /\ newText[n] = "*" /\ (n > 1 \/ ~lead)
  IN  SubSeq(newText, (IF lead THEN 2 ELSE 1), (IF trail THEN n - 1 ELSE n))

\* newText.replace(/^_+|_+$/g, ''): every underscore off the start and the end.
RECURSIVE trimUnderscoresStart(_)
trimUnderscoresStart(str) ==
  IF str # <<>> /\ Head(str) = "_" THEN trimUnderscoresStart(Tail(str)) ELSE str

RECURSIVE trimUnderscoresEnd(_)
trimUnderscoresEnd(str) ==
  IF str # <<>> /\ str[Len(str)] = "_"
  THEN trimUnderscoresEnd(SubSeq(str, 1, Len(str) - 1))
  ELSE str

unwrapItalic(newText) == trimUnderscoresEnd(trimUnderscoresStart(newText))

(***************************************************************************)
(*                        EditorView: selection and formatting             *)
(***************************************************************************)

\* An omitted value argument; like the empty string it is falsy.
NoValue == <<>>

\* `${row.id}-${col.key}`
cellId(rowId, colKey) == rowId \o <<"-">> \o colKey

\* One line of a selected cell under applyFormat(type, value), lines 296-335.
formatLine(line, type, value) ==
  LET trimmed   == trim(line)
      prefixLen == IF matchesHeading(trimmed) THEN 3
                   ELSE IF matchesBullet(trimmed) THEN 2
                   ELSE IF matchesOrderedList(trimmed) THEN 2
                   ELSE 0
      prefix    == SubSeq(trimmed, 1, prefixLen)
      inner     == IF prefixLen > 0 THEN drop(trimmed, prefixLen) ELSE line
      newText   ==
        IF type = "bold"
        THEN (IF startsWith(trim(inner), <<"*">>) /\ endsWithStr(trim(inner), <<"*">>)
              THEN unwrapBold(inner)
              ELSE <<"*">> \o inner \o <<"*">>)
        ELSE IF type = "italic"
        THEN (IF startsWith(trim(inner), <<"_">>) /\ endsWithStr(trim(inner), <<"_">>)
              THEN unwrapItalic(inner)
              ELSE <<"_">> \o inner \o <<"_">>)
        ELSE IF type = "color" /\ value # NoValue
        THEN ColorOpen \o value \o <<"]">> \o replaceColor(inner, 1, TRUE) \o ColorClose
        ELSE inner
  IN  prefix \o newText

\* The new value of a selected cell under applyFormat, lines 291-338.
formatCell(cellValue, type, value) ==
  LET lines == splitLines(cellValue, 1, <<>>)
  IN  join([k \in DOMAIN lines |-> formatLine(lines[k], type, value)])

\* The new value of a selected cell under clearFormatting, lines 354-358.
clearCell(cellValue) ==
  replacePairs(replacePairs(replaceColor(cellValue, 1, FALSE), 1, "*"), 1, "_")

\* data.columns.forEach(col => ...) on newRow, from column c on: the selected
\* cells of the row are rewritten, one column after the other.
RECURSIVE formatColumns(_, _, _, _, _)
formatColumns(row, newRow, c, type, value) ==
  IF c > Len(editorData.columns) THEN newRow
  ELSE LET key == editorData.columns[c].key
       IN  formatColumns(
             row,
             (IF cellId(row[idKey], key) \in selectedCells
              THEN [newRow EXCEPT ![key] = formatCell(newRow[key], type, value)]
              ELSE newRow),
             c + 1, type, value)

\* clearColumns without the selectedCells.has test.
RECURSIVE clearColumns_everyCell(_, _, _)
clearColumns_everyCell(row, newRow, c) ==
  IF c > Len(editorData.columns) THEN newRow
  ELSE LET key == editorData.columns[c].key
       IN  clearColumns_everyCell(
             row, [newRow EXCEPT ![key] = clearCell(newRow[key])], c + 1)

RECURSIVE clearColumns(_, _, _)
clearColumns(row, newRow, c) ==
  IF c > Len(editorData.columns) THEN newRow
  ELSE LET key == editorData.columns[c].key
       IN  clearColumns(
             row,
             (IF cellId(row[idKey], key) \in selectedCells
              THEN [newRow EXCEPT ![key] = clearCell(newRow[key])]
              ELSE newRow),
             c + 1)

\* What the formatting handlers leave alone.
formatFrame ==
  UNCHANGED <<appVars, apiKey, parserVars, cellVars, editorData, rowsPerPage,
              showPdfPreview, orientation, paperSize, isGeneratingPdf, pdfTimer,
              isAnalyzing, insight, analyzeCall>>

\* The number of formatting operations one session of the model performs.
MaxFormats == 2

\* The palette of the toolbar (line 730), two of its colours.
Palette ==
  {<<"#", "0", "0", "0", "0", "0", "0">>, <<"#", "E", "F", "4", "4", "4", "4">>}

FormatOps ==
  {[type |-> "bold", value |-> NoValue], [type |-> "italic", value |-> NoValue]}
    \cup {[type |-> "color", value |-> color] : color \in Palette}

logged(type, value) ==
  /\ Len(formatLog) < MaxFormats
  /\ formatLog' = Append(formatLog, [type |-> type, value |-> value,
                                     cells |-> selectedCells])

\* applyFormat(type, value)
applyFormat(type, value) ==
  /\ logged(type, value)
  /\ tableRows' =
       IF selectedCells = {} THEN tableRows
       ELSE [r \in DOMAIN tableRows |->
               formatColumns(tableRows[r], tableRows[r], 1, type, value)]
  /\ UNCHANGED <<selectedCells, lastSelected, hiddenColumns>>

\* clearFormatting()
clearFormatting ==
  /\ logged("clear", NoValue)
  /\ tableRows' =
       [r \in DOMAIN tableRows |-> clearColumns(tableRows[r], tableRows[r], 1)]
  /\ UNCHANGED <<selectedCells, lastSelected, hiddenColumns>>

Modifiers == {"ctrl", "shift", "none"}

\* handleCellClick(rowId, colKey, e), lines 255-277.
handleCellClick(rowId, colKey, modifier) ==
  LET id == cellId(rowId, colKey)
  IN  /\ selectedCells' =
           IF modifier = "ctrl"
           THEN (IF id \in selectedCells THEN selectedCells \ {id}
                 ELSE selectedCells \cup {id})
           ELSE IF modifier = "shift" /\ lastSelected # Null
           THEN selectedCells \cup {id}
           ELSE {id}
      /\ lastSelected' = [kind |-> "cell", id |-> id]
      /\ UNCHANGED <<tableRows, formatLog, hiddenColumns>>

\* toggleColumn(key), lines 245-253.
toggleColumn(key) ==
  /\ hiddenColumns' =
       IF key \in hiddenColumns THEN hiddenColumns \ {key}
       ELSE hiddenColumns \cup {key}
  /\ UNCHANGED <<tableRows, selectedCells, lastSelected, formatLog>>

\* visibleColumns, lines 408-410: the cells of these columns are rendered and
\* can be clicked.
visibleColumns ==
  SelectSeq(editorData.columns, LAMBDA col : col.key \notin hiddenColumns)

FormatNext ==
  \/ \E op \in FormatOps : applyFormat(op.type, op.value) /\ formatFrame
  \/ clearFormatting /\ formatFrame
  \/ \E r \in DOMAIN tableRows : \E c \in DOMAIN visibleColumns :
       \E modifier \in Modifiers :
         handleCellClick(tableRows[r][idKey], visibleColumns[c].key, modifier)
           /\ formatFrame
  \/ \E c \in DOMAIN editorData.columns :
       toggleColumn(editorData.columns[c].key) /\ formatFrame

\* The cell texts of the model: one or two lines, each a block prefix (or
\* none, or a leading space) and a body that is empty, plain, bold, italic,
\* coloured or holds a lone carriage return.
Prefixes == {<<>>, <<"h", "1", " ">>, <<"#", " ">>, <<"-", " ">>, <<" ">>}
Bodies ==
  {<<>>, <<"a">>, <<"*", "a", "*">>, <<"_", "a", "_">>, <<"a", "\r", "b">>,
   ColorOpen \o <<"#", "f", "f", "f", "]", "a">> \o ColorClose}
Lines == {p \o b : p \in Prefixes, b \in Bodies}
CellTexts == Lines \cup {l \o <<"\n", "a">> : l \in Lines}

\* The tables the editor is given: one row, one column "a" holding one of the
\* cell texts.
FormatTable(cell) ==
  LET headers == << <<"a">> >>
      rows    == <<makeRow(1, headers, <<cell>>)>>
  IN  [rows |-> rows, columns |-> makeColumns(headers, headers, rows)]

\* EditorView mounted on one of these tables, nothing selected.
FormatInit ==
  /\ AppInEditor
  /\ apiKey = TRUE
  /\ editorData \in {FormatTable(cell) : cell \in CellTexts}
  /\ tableRows = editorData.rows
  /\ rowsPerPage = 20
  /\ showPdfPreview = FALSE
  /\ orientation = "portrait"
  /\ paperSize = "a4"
  /\ isGeneratingPdf = FALSE
  /\ pdfTimer = FALSE
  /\ isAnalyzing = FALSE
  /\ insight = Null
  /\ analyzeCall = "none"
  /\ selectedCells = {}
  /\ lastSelected = Null
  /\ hiddenColumns = {}
  /\ formatLog = <<>>
  /\ cellText = <<>>
  /\ view = NotRendered
  /\ ParserIdle
  /\ LibIdle

SpecFormat == FormatInit /\ [][FormatNext]_vars

\* Tables of more than one cell, as parseCSV returns them: two rows under the
\* header "a", two rows under the header "id", one row under "a" and "b".
FrameTable(headers, rowsArray) ==
  LET rows == [r \in DOMAIN rowsArray |-> makeRow(r, headers, rowsArray[r])]
  IN  [rows |-> rows, columns |-> makeColumns(headers, headers, rows)]

FrameTables ==
  {FrameTable(<< <<"a">> >>, << << <<"x">> >>, << <<"y">> >> >>),
   FrameTable(<<idKey>>, << << <<"x">> >>, << <<"y">> >> >>),
   FrameTable(<< <<"a">>, <<"b">> >>, << << <<"x">>, <<"*", "y", "*">> >> >>)}

\* EditorView mounted on one of these tables, nothing selected.
FrameInit ==
  /\ AppInEditor
  /\ apiKey = TRUE
  /\ editorData \in FrameTables
  /\ tableRows = editorData.rows
  /\ rowsPerPage = 20
  /\ showPdfPreview = FALSE
  /\ orientation = "portrait"
  /\ paperSize = "a4"
  /\ isGeneratingPdf = FALSE
  /\ pdfTimer = FALSE
  /\ isAnalyzing = FALSE
  /\ insight = Null
  /\ analyzeCall = "none"
  /\ selectedCells = {}
  /\ lastSelected = Null
  /\ hiddenColumns = {}
  /\ formatLog = <<>>
  /\ cellText = <<>>
  /\ view = NotRendered
  /\ ParserIdle
  /\ LibIdle

SpecFrame == FrameInit /\ [][FormatNext]_vars

(***************************************************************************)
(*                        EditorView: FormattedCell                        *)
(***************************************************************************)

\* The index at which a match of the splitting regex that starts at index i
\* ends, or 0: _[^_]+_ for "italic", \*[^*]+\* for "bold",
\* \[color=#[0-9a-fA-F]{3,6}\].*?\[\/color\] for "color".
RECURSIVE nextIndexOf(_, _, _)
nextIndexOf(str, c, i) ==
  IF i > Len(str) THEN 0
  ELSE IF str[i] = c THEN i
  ELSE nextIndexOf(str, c, i + 1)

matchEnd(kind, str, i) ==
  IF kind = "color"
  THEN LET open  == colorOpenEnd(str, i, TRUE)
           close == IF open = 0 THEN 0 ELSE indexOnLine(str, ColorClose, open + 1)
       IN  IF close = 0 THEN 0 ELSE close + 7
  ELSE LET c     == IF kind = "bold" THEN "*" ELSE "_"
           close == IF str[i] = c THEN nextIndexOf(str, c, i + 1) ELSE 0
       IN  IF close > i + 1 THEN close ELSE 0

\* text.split(/(regex)/g): the texts between the matches and the matches, in
\* turn, from index i on; cur is the text read since the last match.
RECURSIVE splitParts(_, _, _, _)
splitParts(kind, str, i, cur) ==
  IF i > Len(str) THEN <<cur>>
  ELSE LET e == matchEnd(kind, str, i)
       IN  IF e > 0
           THEN <<cur, SubSeq(str, i, e)>> \o splitParts(kind, str, e + 1, <<>>)
           ELSE splitParts(kind, str, i + 1, Append(cur, str[i]))

\* part.startsWith(c) && part.endsWith(c) && part.length > 2
isDelimited(part, c) ==
  /\ Len(part) > 2
  /\ part[1] = c
  /\ part[Len(part)] = c

\* part.slice(1, -1)
inside(part) == SubSeq(part, 2, Len(part) - 1)

\* parseItalic with part.slice(1) for part.slice(1, -1).
parseItalic_keepsClosing(str) ==
  LET parts == splitParts("italic", str, 1, <<>>)
  IN  [k \in DOMAIN parts |->
         IF isDelimited(parts[k], "_")
         THEN [tag |-> "em", text |-> Tail(parts[k])]
         ELSE [tag |-> "text", text |-> parts[k]]]

\* parseItalic(text): em elements and strings.
parseItalic(str) ==
  LET parts == splitParts("italic", str, 1, <<>>)
  IN  [k \in DOMAIN parts |->
         IF isDelimited(parts[k], "_")
         THEN [tag |-> "em", text |-> inside(parts[k])]
         ELSE [tag |-> "text", text |-> parts[k]]]

\* parseBold(text): strong and span elements.
parseBold(str) ==
  LET parts == splitParts("bold", str, 1, <<>>)
  IN  [k \in DOMAIN parts |->
         IF isDelimited(parts[k], "*")
         THEN [tag |-> "strong", children |-> parseItalic(inside(parts[k]))]
         ELSE [tag |-> "span", children |-> parseItalic(parts[k])]]

NoColor == <<>>

\* part.match(/^\[color=(#[0-9a-fA-F]{3,6})\](.*?)\[\/color\]$/): the colour
\* and the inner text, or no match.
colorMatch(part) ==
  LET open == colorOpenEnd(part, 1, TRUE)
  IN  IF /\ open > 0
         /\ endsWithStr(part, ColorClose)
         /\ open + 8 <= Len(part)
         /\ \A k \in (open + 1)..Len(part) : part[k] \notin LineTerminators
      THEN [matched |-> TRUE, color |-> SubSeq(part, 8, open - 1),
            inner |-> SubSeq(part, open + 1, Len(part) - 8)]
      ELSE [matched |-> FALSE]

\* parseColor(text): span elements, with a colour or without.
parseColor(str) ==
  LET parts == splitParts("color", str, 1, <<>>)
  IN  [k \in DOMAIN parts |->
         LET match == colorMatch(parts[k])
         IN  IF match.matched
             THEN [tag |-> "span", color |-> match.color,
                   children |-> parseBold(match.inner)]
             ELSE [tag |-> "span", color |-> NoColor,
                   children |-> parseBold(parts[k])]]

\* trimmed.match(/^hN\s/i) for the level N.
matchesHeadingLevel(trimmed, level) ==
  /\ Len(trimmed) >= 3
  /\ trimmed[1] \in {"h", "H"}
  /\ trimmed[2] = level
  /\ isWhitespace(trimmed[3])

\* The element lines.map returns for one line, olCount being the counter of
\* ordered lists after the reset and the increment of this line.
blockOf(line, olCount) ==
  LET trimmed == trim(line)
  IN  IF trimmed = <<>> THEN [kind |-> "spacer"]
      ELSE IF \E level \in {"1", "2", "3"} : matchesHeadingLevel(trimmed, level)
      THEN [kind |-> "heading", level |-> trimmed[2],
            inline |-> parseColor(drop(trimmed, 3))]
      ELSE IF matchesOrderedList(trimmed)
      THEN [kind |-> "numbered", number |-> olCount,
            inline |-> parseColor(drop(trimmed, 2))]
      ELSE IF matchesBullet(trimmed)
      THEN [kind |-> "bullet", inline |-> parseColor(drop(trimmed, 2))]
      ELSE [kind |-> "paragraph", inline |-> parseColor(line)]

\* blocksFrom where an empty line resets the counter too.
RECURSIVE blocksFrom_blankResets(_, _, _)
blocksFrom_blankResets(lines, i, olCount) ==
  IF i > Len(lines) THEN <<>>
  ELSE LET isOrderedList == matchesOrderedList(trim(lines[i]))
           count == IF isOrderedList THEN olCount + 1 ELSE 0
       IN  <<blockOf(lines[i], count)>> \o blocksFrom_blankResets(lines, i + 1, count)

\* lines.map((line, i) => ...), lines 96-159, from line i on; olCount is the
\* counter of ordered lists when line i is reached.
RECURSIVE blocksFrom(_, _, _)
blocksFrom(lines, i, olCount) ==
  LET trimmed       == trim(lines[i])
      isOrderedList == matchesOrderedList(trimmed)
      reset         == IF ~isOrderedList /\ trimmed # <<>> THEN 0 ELSE olCount
      count         == IF trimmed # <<>> /\ isOrderedList THEN reset + 1 ELSE reset
  IN  IF i > Len(lines) THEN <<>>
      ELSE <<blockOf(lines[i], count)>> \o blocksFrom(lines, i + 1, count)

\* FormattedCell({ text }): null for the empty text, else the div of the blocks.
FormattedCell(str) ==
  IF str = <<>> THEN Null
  ELSE [kind |-> "div", blocks |-> blocksFrom(splitLines(str, 1, <<>>), 1, 0)]

\* One rendering of FormattedCell on cellText.
renderCell ==
  /\ view = NotRendered
  /\ view' = FormattedCell(cellText)
  /\ UNCHANGED cellText

cellFrame == UNCHANGED <<appVars, apiKey, editorVars, parserVars, formatVars>>

CellNext == renderCell /\ cellFrame

\* The texts FormattedCell is given: up to MaxLines lines, each empty, blank,
\* a numbered item, a lone '#', a paragraph, a heading or a bullet; and single
\* lines with inline markup.
MaxLines == 4

BlockLines ==
  {<<>>, <<" ">>, <<"#", " ", "a">>, <<"#">>, <<"a">>, <<"h", "2", " ", "a">>,
   <<"-", " ", "a">>}

ExampleCell ==
  <<"h", "1", " ", "*", "T", "o", "t", "a", "l", "*", ":", " ", "_", "4", "2", "_">>

InlineLines ==
  {ExampleCell,
   <<"*", "a", "*">>, <<"_", "a", "_">>, <<"*", "_", "a", "_", "*">>,
   <<"_", "*", "a", "*", "_">>, <<"*", "*", "*">>, <<"*", "*">>, <<"_", "_">>,
   <<"a", "*", "b">>,
   ColorOpen \o <<"#", "f", "f", "f", "]", "*", "a", "*", "b">> \o ColorClose,
   ColorOpen \o <<"#", "f", "f", "]", "a">> \o ColorClose,
   ColorOpen \o <<"#", "f", "f", "f", "]", "a", "\r", "b">> \o ColorClose}

RECURSIVE joinedLines(_)
joinedLines(n) ==
  IF n = 1 THEN BlockLines
  ELSE {l \o <<"\n">> \o rest : l \in BlockLines, rest \in joinedLines(n - 1)}

RenderTexts == InlineLines \cup UNION {joinedLines(n) : n \in 1..MaxLines}

CellInit ==
  /\ AppInEditor
  /\ apiKey = TRUE
  /\ tableRows = <<>>
  /\ rowsPerPage = 20
  /\ showPdfPreview = FALSE
  /\ orientation = "portrait"
  /\ paperSize = "a4"
  /\ isGeneratingPdf = FALSE
  /\ pdfTimer = FALSE
  /\ isAnalyzing = FALSE
  /\ insight = Null
  /\ analyzeCall = "none"
  /\ editorData = Null
  /\ selectedCells = {}
  /\ lastSelected = Null
  /\ hiddenColumns = {}
  /\ formatLog = <<>>
  /\ cellText \in RenderTexts
  /\ view = NotRendered
  /\ ParserIdle
  /\ LibIdle

SpecCell == CellInit /\ [][CellNext]_vars

(***************************************************************************)
(*                        utils/parser: properties                         *)
(***************************************************************************)

Returned == parseResult # Null /\ parseResult.result.kind = "table"

\* The cell of result row r under the key of column c.
cellAt(r, c) ==
  parseResult.result.rows[r][parseResult.result.columns[c].key]

\* C2: parseCSV on the CSV text of a table returns the table: as many rows, in
\* the source order, the columns keyed by the headers in their order, and every
\* cell equal to the original value.
C2_RoundTrip ==
  (parseResult # Null /\ parseResult.by = "parseCSV" /\ srcTable # Null) =>
    /\ parseResult.result.kind = "table"
    /\ Len(parseResult.result.columns) = Len(srcTable.headers)
    /\ \A c \in DOMAIN srcTable.headers :
         parseResult.result.columns[c].key = srcTable.headers[c]
    /\ Len(parseResult.result.rows) = Len(srcTable.rows)
    /\ \A r \in DOMAIN srcTable.rows : \A c \in DOMAIN srcTable.headers :
         cellAt(r, c) = srcTable.rows[r][c]

\* C3: parseCSV throws on empty input and on every input without an accepted
\* data row, with different messages for the two; it returns a table only with
\* at least one data row.
C3_NoDataRowsThrows ==
  (parseResult # Null /\ parseResult.by = "parseCSV") =>
    /\ content = <<>> => parseResult.result = Thrown("File appears empty")
    /\ parseResult.result.kind = "table" => Len(parseResult.result.rows) >= 1
    /\ (content # <<>> /\ parseResult.result.kind = "error")
         => parseResult.result.message # "File appears empty"

\* C4: every row of a returned table has, as its id, the identifier generated
\* for it, whatever the headers and the cell values are.
C4_RowIdIsGenerated ==
  Returned =>
    \A r \in DOMAIN parseResult.result.rows :
      parseResult.result.rows[r][idKey] = generateId(r)

\* C5: the column keys of a returned table are pairwise distinct.
C5_ColumnKeysDistinct ==
  Returned =>
    \A c1, c2 \in DOMAIN parseResult.result.columns :
      c1 # c2 => parseResult.result.columns[c1].key # parseResult.result.columns[c2].key

\* The valid rows of the text parseCSV was called on, the first being the
\* header row.
validRowsOf(text) == SelectSeq(scannedRows(text), isValidRow)

\* The positions, among the valid rows, of the data rows with as many cells as
\* there are headers, or one more that is empty.
acceptedPositions(valid) ==
  LET H == Len(valid[1])
  IN  {i \in 2..Len(valid) :
         \/ Len(valid[i]) = H
         \/ Len(valid[i]) = H + 1 /\ valid[i][H + 1] = <<>>}

\* The n-th accepted position in source order.
nthAccepted(valid, n) ==
  CHOOSE i \in acceptedPositions(valid) :
    Cardinality({j \in acceptedPositions(valid) : j <= i}) = n

\* C20: with H the header count, the table rows parseCSV returns are exactly
\* the later valid rows with H cells, or H + 1 cells the last one empty, in
\* source order; all other rows are dropped without error; each table row
\* holds, under the header at each position up to H, the cell at that
\* position, and nothing else but its id.
C20_RowAcceptance ==
  (parseResult # Null /\ parseResult.by = "parseCSV" /\ validRowsOf(content) # <<>>) =>
    LET valid == validRowsOf(content)
        H     == Len(valid[1])
        rows  == parseResult.result.rows
    IN  /\ parseResult.result.kind = "table"
        /\ Len(rows) = Cardinality(acceptedPositions(valid))
        /\ \A n \in DOMAIN rows :
             /\ DOMAIN rows[n] = {idKey} \cup {trim(valid[1][c]) : c \in 1..H}
             /\ \A c \in 1..H :
                  rows[n][trim(valid[1][c])] = valid[nthAccepted(valid, n)][c]

\* Whether the character at position i of text stands inside quotes: an odd
\* number of double quotes precedes it.
quotedAt(text, i) ==
  Cardinality({j \in 1..(i - 1) : text[j] = "\""}) % 2 = 1

\* The positions of the row terminators of text: the carriage returns and line
\* feeds outside quotes, a line feed right after a carriage return not counted.
rowTerminators(text) ==
  {i \in DOMAIN text :
     /\ text[i] \in {"\r", "\n"}
     /\ ~quotedAt(text, i)
     /\ ~(text[i] = "\n" /\ i > 1 /\ text[i - 1] = "\r")}

\* The position after which the last row terminator of text has been consumed.
lastRowEnd(text) ==
  LET ends == rowTerminators(text)
      last == CHOOSE i \in ends : \A j \in ends : j <= i
  IN  IF ends = {} THEN 0
      ELSE IF text[last] = "\r" /\ last < Len(text) /\ text[last + 1] = "\n"
      THEN last + 1
      ELSE last

\* Something is pending at the end of text: after the last row terminator there
\* is a cell separator or a character that belongs to a cell (any character
\* but a double quote, or the second quote of a doubled quote inside quotes:
\* a quote that follows a quote and has an even number of quotes before it).
pendingAtEnd(text) ==
  \E i \in (lastRowEnd(text) + 1)..Len(text) :
    \/ text[i] # "\""
    \/ /\ i > 1
       /\ text[i - 1] = "\""
       /\ ~quotedAt(text, i)

\* The cells of all rows, in order.
RECURSIVE allCells(_)
allCells(rowsData) ==
  IF rowsData = <<>> THEN <<>> ELSE Head(rowsData) \o allCells(Tail(rowsData))

\* How many characters of the set cs the cells hold.
RECURSIVE charsIn(_, _)
charsIn(cells, cs) ==
  IF cells = <<>> THEN 0
  ELSE Cardinality({k \in DOMAIN Head(cells) : Head(cells)[k] \in cs})
       + charsIn(Tail(cells), cs)

Separators == {",", "\r", "\n"}

\* C21: the raw rows of the parseCSV scan are as many as the row terminators
\* outside quotes (CRLF counted once), plus one when something is pending at
\* the end; every comma outside quotes ends one cell; commas and line breaks
\* inside quotes end nothing and are kept in the cells.
C21_RawRows ==
  (parseResult # Null /\ parseResult.by = "parseCSV") =>
    LET rowsData == scannedRows(content)
    IN  /\ Len(rowsData) = Cardinality(rowTerminators(content))
                           + (IF pendingAtEnd(content) THEN 1 ELSE 0)
        /\ Len(allCells(rowsData)) =
             Len(rowsData)
             + Cardinality({i \in DOMAIN content :
                              content[i] = "," /\ ~quotedAt(content, i)})
        /\ charsIn(allCells(rowsData), Separators) =
             Cardinality({i \in DOMAIN content :
                            content[i] \in Separators /\ quotedAt(content, i)})

\* C21 witness: a text with a quoted comma, then a CRLF outside quotes, has
\* been scanned into one row.
C21_Witness ==
  /\ parseResult # Null
  /\ content = <<"\"", ",", "\"", "\r", "\n">>
  /\ scannedRows(content) = << << <<",">> >> >>

(***************************************************************************)
(*                        EditorView: properties                           *)
(***************************************************************************)

RECURSIVE Flatten(_)
Flatten(seqs) == IF seqs = <<>> THEN <<>> ELSE Head(seqs) \o Flatten(Tail(seqs))

CeilDiv(a, b) == (a + b - 1) \div b

\* C1: for a row sequence of length R and rows-per-page P >= 5, paginatedRows
\* returns ceil(R/P) pages (none when R = 0), every page but the last holds
\* exactly P rows, the last holds between 1 and P, and the pages concatenated
\* in order are the row sequence.
C1_Pagination ==
  rowsPerPage >= 5 =>
    LET pages == paginatedRows.pages
        n     == Len(pages)
    IN  /\ paginatedRows.done
        /\ n = CeilDiv(Len(tableRows), rowsPerPage)
        /\ \A k \in 1..(n - 1) : Len(pages[k]) = rowsPerPage
        /\ n > 0 => Len(pages[n]) \in 1..rowsPerPage
        /\ Flatten(pages) = tableRows

\* C1 witness: at least three pages, the last one shorter than the others.
C1_Witness ==
  /\ rowsPerPage >= 5
  /\ Len(paginatedRows.pages) >= 3
  /\ Len(paginatedRows.pages[Len(paginatedRows.pages)]) < rowsPerPage

\* C8: analyzeTableData never rejects: on every failure it resolves to the
\* fallback pair, so handleAnalyze always receives a result and, once the call
\* has settled, has stored an insight and cleared isAnalyzing.
C8_AnalyzeNeverRejects ==
  /\ analyzeCall # "rejected"
  /\ analyzeCall = "resolved" => (insight # Null /\ ~isAnalyzing)

\* C10: rows-per-page is an integer between 5 and 100 in every state of the
\* editor, whatever the rows input of the preview receives.
C10_RowsPerPageInRange == rowsPerPage \in 5..100

\* C26: for every non-empty row sequence and every rows-per-page value the
\* rows input can produce (0 and negative values included), the loop of
\* paginatedRows comes to its end.
C26_PaginationTerminates == tableRows # <<>> => paginatedRows.done

\* The rows per page the preview effect selects for an orientation.
autoRows(orient) == IF orient = "portrait" THEN 20 ELSE 12

\* C18: entering the preview selects 20 rows per page for portrait and 12 for
\* landscape; while the preview stays open, a rows-per-page value that differs
\* from the automatic one (a value the user set, here one within 5..100)
\* changes only by the user setting it again, in particular not when the paper
\* size changes.
C18_UserRowsKept ==
  [][/\ (~showPdfPreview /\ showPdfPreview') => rowsPerPage' = autoRows(orientation')
     /\ (/\ showPdfPreview
         /\ showPdfPreview'
         /\ rowsPerPage \in 5..100
         /\ rowsPerPage # autoRows(orientation)
         /\ rowsPerPage' # rowsPerPage)
        => \E value \in RowsInputs : setRowsPerPage(value)]_vars

(***************************************************************************)
(*                        App: properties                                  *)
(***************************************************************************)

AllSettled == \A u \in DOMAIN uploads : uploads[u].pc \in Settled

\* Upload u settles (its parse succeeds or fails) in this step.
Settles(u) == uploads[u].pc \notin Settled /\ uploads'[u].pc \in Settled

\* Upload u fails in this step.
Fails(u) == uploads[u].pc # "failed" /\ uploads'[u].pc = "failed"

\* C6: when a second file is selected while an earlier parse is in flight and
\* the upload zone is shown in state UPLOADING, the earlier result is
\* discarded: once every upload has settled, parsedData is the table of the
\* most recently selected file (when that one parsed), and the late success or
\* failure of the earlier upload changes neither parsedData, error nor state.
C6_EarlierUploadDiscarded ==
  /\ []((/\ AllSettled
         /\ \E u \in DOMAIN uploads : uploads[u].superseded
         /\ uploads[Len(uploads)].pc = "done"
         /\ parsedData # Null)
        => parsedData.upload = Len(uploads))
  /\ [][\A u \in DOMAIN uploads :
          (uploads[u].superseded /\ Settles(u))
            => UNCHANGED <<parsedData, error, state>>]_vars

ExtensionFirst(file) ==
  IF endsWith(file, "csv") THEN "parseCSV"
  ELSE IF endsWith(file, "html") \/ endsWith(file, "htm") THEN "parseHTML"
  ELSE IF endsWith(file, "pdf") THEN "parseDocumentWithAI"
  ELSE IF file.type = "text/csv" THEN "parseCSV"
  ELSE IF file.type = "text/html" THEN "parseHTML"
  ELSE IF file.type = "application/pdf" THEN "parseDocumentWithAI"
  ELSE "none"

\* C9: handleFileSelect routes by extension first and by MIME type only when
\* the extension decides nothing: every parser it calls is the one the
\* extension names (a .csv, .html or .htm file goes to its local parser
\* whatever MIME type is declared).
C9_RoutedByExtensionFirst ==
  \A u \in DOMAIN uploads :
    uploads[u].parser # "none" => uploads[u].parser = ExtensionFirst(uploads[u].file)

\* C27: the table the app saves to history and shows in EDITOR is the one
\* parsed from the most recently selected file, also when "New Conversion" was
\* invoked while an earlier parse was in flight (no file was selected over
\* another one in the upload zone: that case is C6).
C27_AbandonedParseNotShown ==
  [][(/\ state # "EDITOR"
      /\ state' = "EDITOR"
      /\ \A u \in DOMAIN uploads : ~uploads[u].superseded)
     => /\ parsedData # Null
        /\ parsedData.upload = Len(uploads)
        /\ history'[1].fileName = uploads[Len(uploads)].file]_vars

\* C30: in every reachable state of App, whatever the interleaving of file
\* selections, read and parse completions, "Beautify Table" and "New
\* Conversion", state = EDITOR implies that parsedData is not null.
C30_EditorHasTable == state = "EDITOR" => parsedData # Null

\* C30 witness: the editor is shown after a second file was selected, which
\* takes a failure or a "New Conversion" in between.
C30_Witness ==
  /\ state = "EDITOR"
  /\ Len(uploads) = 2
  /\ parsedData # Null

\* The file is neither CSV, HTML nor PDF, by its extension or by its MIME type.
isUnsupported(file) ==
  /\ \A ext \in {"csv", "html", "htm", "pdf"} : ~endsWith(file, ext)
  /\ file.type \notin {"text/csv", "text/html", "application/pdf"}

\* C24: the outcome reported for a file that is neither CSV, HTML nor PDF never
\* carries the message of a CSV or HTML parse failure: when the upload zone
\* stops the file the alert differs from it, and when the upload of such a
\* file fails in handleFileSelect the error shown differs from it.
C24_InvalidFormatDistinct ==
  [][/\ (alertMsg' # alertMsg) => alertMsg' # LocalParseError
     /\ \A u \in DOMAIN uploads :
          (Fails(u) /\ isUnsupported(uploads[u].file)) => error' # LocalParseError]_vars


(***************************************************************************)
(*                        EditorView: formatting properties                *)
(***************************************************************************)

\* The cell of the model's one-row table, as given and as it is now.
FormatKey    == <<"a">>
originalCell == editorData.rows[1][FormatKey]
currentCell  == tableRows[1][FormatKey]
theCellId    == cellId(editorData.rows[1][idKey], FormatKey)

\* The log holds exactly the operations ops, each performed with the cell
\* selected.
Performed(ops) ==
  /\ editorData # Null
  /\ Len(formatLog) = Len(ops)
  /\ \A k \in DOMAIN ops :
       /\ formatLog[k].type = ops[k].type
       /\ formatLog[k].value = ops[k].value
       /\ theCellId \in formatLog[k].cells

\* One line of plain text: no line feed, no markup character, no block prefix.
isPlainLine(str) ==
  /\ \A k \in DOMAIN str : str[k] \notin {"\n", "*", "_", "["}
  /\ ~matchesHeading(trim(str))
  /\ ~matchesBullet(trim(str))
  /\ ~matchesOrderedList(trim(str))

\* C11: on a cell holding one line of plain text, applyFormat('bold') twice,
\* or applyFormat('italic') twice, gives back exactly the original text.
C11_BoldItalicSelfInverse ==
  \A type \in {"bold", "italic"} :
    (/\ Performed(<<[type |-> type, value |-> NoValue],
                    [type |-> type, value |-> NoValue]>>)
     /\ isPlainLine(originalCell))
      => currentCell = originalCell

\* The number of places at which pat occurs in str.
countOf(str, pat) == Cardinality({i \in DOMAIN str : startsWithAt(str, i, pat)})

wrapped(str, color) == ColorOpen \o color \o <<"]">> \o str \o ColorClose

\* C12: after applyFormat('color', c1) and applyFormat('color', c2), c1 # c2,
\* on a selected cell, every line holds exactly one colour wrapper; it carries
\* c2 and, for a cell that held no colour markup, it wraps the original text
\* of the line, after the block prefix if the line has one.
C12_ColorReplaces ==
  \A c1, c2 \in Palette :
    (/\ c1 # c2
     /\ Performed(<<[type |-> "color", value |-> c1],
                    [type |-> "color", value |-> c2]>>))
      => LET was == splitLines(originalCell, 1, <<>>)
             now == splitLines(currentCell, 1, <<>>)
         IN  /\ Len(now) = Len(was)
             /\ \A k \in DOMAIN now :
                  /\ countOf(now[k], ColorOpen) = 1
                  /\ countOf(now[k], ColorClose) = 1
                  /\ countOf(now[k], ColorOpen \o c2 \o <<"]">>) = 1
                  /\ (\A i \in DOMAIN originalCell : originalCell[i] # "[")
                       => \E base \in {was[k], trim(was[k])} :
                            \E j \in 0..Len(base) :
                              now[k] = SubSeq(base, 1, j)
                                         \o wrapped(drop(base, j), c2)

\* C17: applyFormat and clearFormatting, invoked with no cell selected, leave
\* every cell value of every row as it was (no invocation has an error
\* outcome: the handlers are total).
C17_NoSelectionNoOp ==
  [][(formatLog' # formatLog /\ selectedCells = {}) => tableRows' = tableRows]_vars

\* C17 witness: clearFormatting was invoked with nothing selected on a cell
\* that holds bold text, and the text is still bold.
C17_Witness ==
  /\ editorData # Null
  /\ Len(formatLog) = 1
  /\ formatLog[1].type = "clear"
  /\ formatLog[1].cells = {}
  /\ currentCell = <<"*", "a", "*">>


(***************************************************************************)
(*                        FormattedCell: properties                        *)
(***************************************************************************)

\* The texts of an italic-level node sequence that show, with their styles.
RECURSIVE italicRuns(_, _)
italicRuns(nodes, bold) ==
  IF nodes = <<>> THEN <<>>
  ELSE (IF Head(nodes).text = <<>> THEN <<>>
        ELSE <<[text |-> Head(nodes).text, bold |-> bold,
                italic |-> Head(nodes).tag = "em"]>>)
       \o italicRuns(Tail(nodes), bold)

RECURSIVE boldRuns(_)
boldRuns(nodes) ==
  IF nodes = <<>> THEN <<>>
  ELSE italicRuns(Head(nodes).children, Head(nodes).tag = "strong")
       \o boldRuns(Tail(nodes))

\* What the inline content of a block shows: the non-empty texts in order,
\* each with whether it is bold and whether it is italic.
RECURSIVE runs(_)
runs(inline) ==
  IF inline = <<>> THEN <<>>
  ELSE boldRuns(Head(inline).children) \o runs(Tail(inline))

ExampleRendered == cellText = ExampleCell /\ view # NotRendered

\* C16 as stated: 'h1 *Total*: _42_' renders as one level-1 heading whose
\* inline content is bold 'Total:' followed by italic '42'.
C16_BoldTotalColon ==
  ExampleRendered =>
    /\ view.kind = "div"
    /\ Len(view.blocks) = 1
    /\ view.blocks[1].kind = "heading"
    /\ view.blocks[1].level = "1"
    /\ runs(view.blocks[1].inline) =
         <<[text |-> <<"T", "o", "t", "a", "l", ":">>, bold |-> TRUE, italic |-> FALSE],
           [text |-> <<"4", "2">>, bold |-> FALSE, italic |-> TRUE]>>

\* C16 amended: 'h1 *Total*: _42_' renders as one level-1 heading whose inline
\* content is bold 'Total', then the plain text ': ', then italic '42'.
C16_BoldTotalThenColon ==
  ExampleRendered =>
    /\ view.kind = "div"
    /\ Len(view.blocks) = 1
    /\ view.blocks[1].kind = "heading"
    /\ view.blocks[1].level = "1"
    /\ runs(view.blocks[1].inline) =
         <<[text |-> <<"T", "o", "t", "a", "l">>, bold |-> TRUE, italic |-> FALSE],
           [text |-> <<":", " ">>, bold |-> FALSE, italic |-> FALSE],
           [text |-> <<"4", "2">>, bold |-> FALSE, italic |-> TRUE]>>

\* C16 witness: the example text has been rendered to a heading.
C16_Witness ==
  /\ ExampleRendered
  /\ view.kind = "div"
  /\ view.blocks[1].kind = "heading"

\* The lines of the rendered text.
cellLines == splitLines(cellText, 1, <<>>)

numberedLine(line) == matchesOrderedList(trim(line))

blankLine(line) == trim(line) = <<>>

\* The most recent line before line i that is neither blank nor numbered, or 0.
lastReset(i) ==
  LET resets == {j \in 1..(i - 1) : ~numberedLine(cellLines[j]) /\ ~blankLine(cellLines[j])}
  IN  IF resets = {} THEN 0 ELSE CHOOSE j \in resets : \A k \in resets : k <= j

\* C19: the number shown for a numbered line is 1 plus the count of numbered
\* lines since the most recent preceding non-empty non-numbered line (or since
\* the start of the cell); blank lines neither reset nor increment.
C19_NumberedCounter ==
  (view # NotRendered /\ view # Null) =>
    /\ Len(view.blocks) = Len(cellLines)
    /\ \A i \in DOMAIN cellLines :
         numberedLine(cellLines[i]) =>
           /\ view.blocks[i].kind = "numbered"
           /\ view.blocks[i].number =
                1 + Cardinality({j \in (lastReset(i) + 1)..(i - 1) :
                                   numberedLine(cellLines[j])})

\* C19 witness: a numbered line, a blank line, a numbered line shown as 2, a
\* paragraph; or a paragraph between two numbered lines, the second shown as 1.
C19_Witness ==
  /\ view # NotRendered
  /\ view # Null
  /\ Len(view.blocks) = 4
  /\ view.blocks[1].kind = "numbered"
  /\ view.blocks[2].kind = "spacer"
  /\ view.blocks[3].kind = "numbered"
  /\ view.blocks[3].number = 2
  /\ view.blocks[4].kind = "paragraph"


\* No formatting operation was performed while the cell of row r under key
\* was selected.
neverFormatted(r, key) ==
  \A k \in DOMAIN formatLog :
    cellId(editorData.rows[r][idKey], key) \notin formatLog[k].cells

\* C25: whatever formatting, clearing, column toggling and clicking was done,
\* the table has the rows it was given, in their order and with their ids,
\* every cell that was in no selection when a formatting operation ran has its
\* original value, and the column list with its types is the one given.
C25_TableFrameKept ==
  /\ [](editorData # Null =>
          /\ Len(tableRows) = Len(editorData.rows)
          /\ \A r \in DOMAIN tableRows :
               /\ tableRows[r][idKey] = editorData.rows[r][idKey]
               /\ DOMAIN tableRows[r] = DOMAIN editorData.rows[r]
               /\ \A c \in DOMAIN editorData.columns :
                    neverFormatted(r, editorData.columns[c].key)
                      => tableRows[r][editorData.columns[c].key]
                           = editorData.rows[r][editorData.columns[c].key])
  /\ [][editorData' = editorData]_vars

(***************************************************************************)
(*                        applyFormat and FormattedCell: properties        *)
(***************************************************************************)

\* The block prefix of a line: the first three characters of a heading line,
\* the first two of a numbered or bullet line (after trimming), else none.
blockPrefix(line) ==
  LET trimmed == trim(line)
  IN  IF matchesHeading(trimmed) THEN SubSeq(trimmed, 1, 3)
      ELSE IF matchesOrderedList(trimmed) \/ matchesBullet(trimmed)
      THEN SubSeq(trimmed, 1, 2)
      ELSE <<>>

\* The kind of block FormattedCell renders the line as, with the level of a
\* heading.
blockClass(line) ==
  LET block == blockOf(line, 1)
  IN  IF block.kind = "heading" THEN <<"heading", block.level>> ELSE <<block.kind>>

\* The step is applyFormat with the cell of the table selected.
FormatStep ==
  /\ Len(formatLog') = Len(formatLog) + 1
  /\ formatLog'[Len(formatLog')].type \in {"bold", "italic", "color"}
  /\ theCellId \in selectedCells

\* C23: a bold, italic or colour operation on a selected cell keeps the number
\* of lines, and every line that starts (after trimming) with a block prefix
\* starts with the same prefix afterwards and is rendered by FormattedCell as
\* the same kind of block as before.
C23_BlockStructureKept ==
  [][FormatStep =>
       LET was == splitLines(currentCell, 1, <<>>)
           now == splitLines(currentCell', 1, <<>>)
       IN  /\ Len(now) = Len(was)
           /\ \A k \in DOMAIN was :
                blockPrefix(was[k]) # <<>> =>
                  /\ startsWith(now[k], blockPrefix(was[k]))
                  /\ blockClass(now[k]) = blockClass(was[k])]_vars

\* What FormattedCell shows for the cell as it is now: the runs of its blocks,
\* one sequence of runs per block.
shownRuns ==
  LET element == FormattedCell(currentCell)
  IN  IF element = Null THEN <<>>
      ELSE [k \in DOMAIN element.blocks |->
              IF element.blocks[k].kind = "spacer" THEN <<>>
              ELSE runs(element.blocks[k].inline)]

Bold   == [type |-> "bold", value |-> NoValue]
Italic == [type |-> "italic", value |-> NoValue]

\* C28: on a cell holding one line of plain text (not empty, no white space
\* around it), bold then italic, and italic then bold, both give a text that
\* FormattedCell shows as one run, bold and italic, holding the original text:
\* no delimiter character is shown.
C28_BoldItalicEitherOrder ==
  (/\ Performed(<<Bold, Italic>>) \/ Performed(<<Italic, Bold>>)
   /\ isPlainLine(originalCell)
   /\ originalCell # <<>>
   /\ trim(originalCell) = originalCell)
    => shownRuns = << <<[text |-> originalCell, bold |-> TRUE, italic |-> TRUE]>> >>

\* C29: applyFormat('bold') on a selected cell leaves every line that
\* FormattedCell renders as a plain paragraph a plain paragraph, lines that
\* begin with white space included.
C29_BoldKeepsParagraph ==
  [][(FormatStep /\ formatLog'[Len(formatLog')].type = "bold") =>
       LET was == splitLines(currentCell, 1, <<>>)
           now == splitLines(currentCell', 1, <<>>)
       IN  /\ Len(now) = Len(was)
           /\ \A k \in DOMAIN was :
                blockClass(was[k]) = <<"paragraph">>
                  => blockClass(now[k]) = <<"paragraph">>]_vars

(***************************************************************************)
(*                        detectType and parseHTML: properties             *)
(***************************************************************************)

\* The non-empty values of the column detectType was called on.
nonEmptyValues == SelectSeq(columnValues, LAMBDA v : v # <<>>)

\* The text, with '$' and ',' removed, is a finite number: an optionally
\* signed decimal literal, white space around it aside.
isFiniteNumber(str) ==
  LET t == trim(stripCurrency(str))
      u == IF t # <<>> /\ Head(t) \in {"+", "-"} THEN Tail(t) ELSE t
  IN  t # <<>> /\ isDecimalLiteral(u)

\* C13: detectType returns 'number' or 'currency' exactly when every non-empty
\* value, '$' and ',' removed, is a finite number (Infinity, a lone '$' and
\* white space are none), and then 'currency' exactly when some value holds
\* a '$'.
C13_NumberIffFinite ==
  (columnType # Null /\ Len(nonEmptyValues) >= 1) =>
    LET numeric == \A k \in DOMAIN nonEmptyValues : isFiniteNumber(nonEmptyValues[k])
    IN  /\ columnType.type \in {"number", "currency"} <=> numeric
        /\ numeric =>
             (columnType.type = "currency"
                <=> \E k \in DOMAIN nonEmptyValues : includes(nonEmptyValues[k], "$"))

\* C14: a column whose non-empty values are all the same short string, no
\* number (neither a finite one nor one to Number) and no date, is a 'tag'
\* column, however many values it has (one at least).
C14_IdenticalShortIsTag ==
  (/\ columnType # Null
   /\ Len(nonEmptyValues) >= 1
   /\ \A k \in DOMAIN nonEmptyValues : nonEmptyValues[k] = nonEmptyValues[1]
   /\ Len(nonEmptyValues[1]) < 20
   /\ ~isFiniteNumber(nonEmptyValues[1])
   /\ isNaNNumber(stripCurrency(nonEmptyValues[1]))
   /\ ~isISODate(nonEmptyValues[1]))
    => columnType.type = "tag"

\* The type parseHTML gave to the column with this key.
typeOfColumn(key) ==
  LET columns == parseResult.result.columns
  IN  columns[CHOOSE c \in DOMAIN columns : columns[c].key = key].type

ExampleParsed ==
  /\ doc = ExampleDocument
  /\ parseResult # Null
  /\ parseResult.by = "parseHTML"

\* C15: parseHTML on the table with header row [City, Pop] and body rows
\* [Paris, 2M], [Lyon, 0.5M] yields 2 rows and 2 columns, and the Pop column
\* is a 'tag' column.
C15_PopIsTag ==
  ExampleParsed =>
    /\ parseResult.result.kind = "table"
    /\ Len(parseResult.result.rows) = 2
    /\ Len(parseResult.result.columns) = 2
    /\ typeOfColumn(Pop) = "tag"

\* C15 as amended: 2 rows and 2 columns with the keys City and Pop, the rows
\* holding the body cells, and the Pop column is a 'text' column: its two
\* values are no numbers, and two distinct values among two are not fewer than
\* half.
C15_PopIsText ==
  ExampleParsed =>
    /\ parseResult.result.kind = "table"
    /\ Len(parseResult.result.rows) = 2
    /\ Len(parseResult.result.columns) = 2
    /\ parseResult.result.columns[1].key = City
    /\ parseResult.result.columns[2].key = Pop
    /\ parseResult.result.rows[1][City] = Paris
    /\ parseResult.result.rows[1][Pop] = TwoM
    /\ parseResult.result.rows[2][City] = Lyon
    /\ parseResult.result.rows[2][Pop] = HalfM
    /\ typeOfColumn(Pop) = "text"

\* C15 witness: the example document has been parsed into a table.
C15_Witness == ExampleParsed /\ parseResult.result.kind = "table"

\* The table of the document has rows and none of them in a header section.
NoHeaderSection ==
  /\ doc # Null
  /\ doc.table # Null
  /\ allRows(doc.table.sections) # <<>>
  /\ rowsOf(doc.table.sections, "thead") = <<>>

hasNonEmptyCell(row) == \E c \in DOMAIN row : trim(row[c].textContent) # <<>>

\* C22: when the table has no header section, the data rows parseHTML returns
\* are exactly the rows after the first that have a non-empty cell, in document
\* order; the first row, the header, is not among them.
C22_HeaderRowNotData ==
  (NoHeaderSection /\ parseResult # Null /\ parseResult.by = "parseHTML") =>
    LET rest     == Tail(allRows(doc.table.sections))
        expected == SelectSeq(rest, hasNonEmptyCell)
        rows     == parseResult.result.rows
        columns  == parseResult.result.columns
    IN  /\ parseResult.result.kind = "table"
        /\ Len(rows) = Len(expected)
        /\ \A n \in DOMAIN rows : \A c \in DOMAIN expected[n] :
             (c \in DOMAIN columns /\ \A c2 \in DOMAIN columns :
                                        c2 # c => columns[c2].key # columns[c].key)
               => rows[n][columns[c].key] = trim(expected[n][c].textContent)

====
